---- MODULE Spec2Model ----
(***************************************************************************)
(* Crash-data refinement pipeline: merge stage runner (transformer.py),    *)
(* clean stage runner (cleaner.py), cleaning engine (cleaning_rules.py,    *)
(* minio_io.py) and load & integrity engine (duckdb_writer.py).            *)
(*                                                                         *)
(* Two specifications share the variables:                                 *)
(*   SpecLoad  write_to_gold called directly with arbitrary cleaned row    *)
(*             sets and corr_ids;                                          *)
(*   Spec      the two queue-driven runners, the object store and the      *)
(*             gold store, driven by published job messages.               *)
(***************************************************************************)
EXTENDS Integers, Sequences, FiniteSets, TLC

\* ------------------------------------------------------------------
\* Bounds
\* ------------------------------------------------------------------
MaxBatch == 2
MaxLoads == 3
MaxPub == 2
MaxDeliv == 2
MaxParents == 2
MaxChildren == 2
MaxFrame == 2

\* ------------------------------------------------------------------
\* Values
\* ------------------------------------------------------------------
\* SQL NULL / pandas None in the crash_record_id column
NULL == 0
Keys == {1, 2}
CorrIds == {"R1", "R2"}
\* msg.get("corr_id") of a message without the field
NoCorr == "none"

\* a cleaned row, as far as the store's key handling sees it
CleanRows == [id : Keys \cup {NULL}]
Batches == UNION {[1..n -> CleanRows] : n \in 0..MaxBatch}

NoStats == [before_count |-> -1, after_count |-> -1, inserted |-> -1,
            skipped |-> -1, integrity_passed |-> FALSE]

\* CREATE TABLE IF NOT EXISTS gives a new store PRIMARY KEY and leaves the
\* table of an existing store file as it is; ON CONFLICT (crash_record_id)
\* needs a PRIMARY KEY or a UNIQUE constraint, and UNIQUE admits NULL
Constraints == {"primary_key", "unique"}

VARIABLES
    table,        \* gold.crashes: the rows in insertion order
    clock,        \* datetime.now()
    last,         \* the most recent write_to_gold call: its arguments and outcome
    nloads,       \* number of write_to_gold calls so far
    opened,       \* store connections opened so far
    closed,       \* store connections closed so far
    pkey          \* the constraint on crash_record_id of the gold.crashes found in the store

VARIABLES
    tq,           \* the transform queue
    cq,           \* the clean queue
    raw,          \* raw bucket: its objects in listing order
    objs,         \* transform buckets: the merged objects
    tr,           \* merge stage runner: position in on_msg
    cl,           \* clean stage runner: position in on_message and its locals
    deliv,        \* per runner, the bodies delivered so far (index = delivery tag)
    acks,         \* per runner and delivery tag, the number of basic_ack calls
    nacks,        \* per runner and delivery tag, the requeue flags of the basic_nack calls
    ran,          \* per runner, the delivery tags whose engine was invoked
    raised,       \* per runner, the delivery tags whose handling raised
    pubs,         \* per merge stage delivery tag, the clean jobs published
    wrote,        \* per merge stage delivery tag, the objects written
    gauge,        \* per runner, the jobs-in-progress gauge
    npub,         \* messages published by producers outside the two runners
    cleaned,      \* per corr_id, the merged rows of its last acked clean job
    proc          \* per runner, the process: start_consumer's position and its connection

loadVars == <<table, clock, last, nloads, opened, closed, pkey>>
pipeVars == <<tq, cq, raw, objs, tr, cl, deliv, acks, nacks, ran, raised, pubs,
              wrote, gauge, npub, cleaned, proc>>
vars == <<loadVars, pipeVars>>

\* ------------------------------------------------------------------
\* duckdb_writer.py
\* ------------------------------------------------------------------
KeysOf(t) == {t[i].id : i \in DOMAIN t}

\* upsert_data, lines 129-133: every row of the call gets the same stamps
Stamp(r, corr, now) ==
    [id |-> r.id, corr_id |-> corr,
     inserted_at |-> now + 1, updated_at |-> now + 2]

\* mutant: a plain INSERT without the conflict clause and without the key check
insert_all(t, rows) == t \o rows

\* mutant: ON CONFLICT (crash_record_id) DO UPDATE, the incoming row replaces
\* the stored one
RECURSIVE on_conflict_do_update(_, _)
on_conflict_do_update(t, rows) ==
    IF rows = <<>> THEN t
    ELSE LET r == Head(rows) IN
         on_conflict_do_update(
             IF r.id \in KeysOf(t)
             THEN [i \in DOMAIN t |-> IF t[i].id = r.id THEN r ELSE t[i]]
             ELSE Append(t, r),
             Tail(rows))

\* INSERT ... ON CONFLICT (crash_record_id) DO NOTHING: a row whose key is
\* already in the table is skipped
RECURSIVE on_conflict_do_nothing(_, _)
on_conflict_do_nothing(t, rows) ==
    IF rows = <<>> THEN t
    ELSE LET r == Head(rows) IN
         on_conflict_do_nothing(
             IF r.id # NULL /\ r.id \in KeysOf(t) THEN t ELSE Append(t, r),
             Tail(rows))

\* crash_record_id VARCHAR PRIMARY KEY implies NOT NULL
not_null_violated(rows, cons) ==
    cons = "primary_key" /\ \E i \in DOMAIN rows : rows[i].id = NULL

\* two rows of one INSERT share a key that is not in the table yet
fresh_duplicate(t, rows) ==
    \E i, j \in DOMAIN rows :
        /\ i < j /\ rows[i].id = rows[j].id
        /\ rows[i].id # NULL /\ rows[i].id \notin KeysOf(t)

\* mutant: a plain INSERT, which raises on a key that is already stored
insert_raises_on_conflict(t, rows, policy, fault, cons) ==
    \/ fault = "insert"
    \/ \E i \in DOMAIN rows : rows[i].id = NULL \/ rows[i].id \in KeysOf(t)
    \/ policy = "raise" /\ \E i, j \in DOMAIN rows : i < j /\ rows[i].id = rows[j].id

\* the INSERT statement: raises (and writes nothing) on a constraint
\* violation or a storage fault, else appends the non-conflicting rows
insert_raises(t, rows, policy, fault, cons) ==
    \/ fault = "insert"
    \/ not_null_violated(rows, cons)
    \/ policy = "raise" /\ fresh_duplicate(t, rows)

\* mutant: every attempted row is reported as inserted
load_stats_attempted(before_count, after_count, attempted) ==
    [before_count |-> before_count, after_count |-> after_count,
     inserted |-> attempted, skipped |-> 0, integrity_passed |-> FALSE]

\* mutant: every attempted row is reported as skipped
load_stats_skipped_all(before_count, after_count, attempted) ==
    [before_count |-> before_count, after_count |-> after_count,
     inserted |-> after_count - before_count, skipped |-> attempted,
     integrity_passed |-> FALSE]

\* upsert_data, lines 212-221: the statistics are derived from the two counts
load_stats(before_count, after_count, attempted) ==
    LET inserted == after_count - before_count IN
    [before_count |-> before_count, after_count |-> after_count,
     inserted |-> inserted, skipped |-> attempted - inserted,
     integrity_passed |-> FALSE]

upsert_data(t, df, corr, now, policy, fault, cons) ==
    LET before_count == Len(t)
        stamped == [i \in DOMAIN df |-> Stamp(df[i], corr, now)]
    IN  IF insert_raises(t, stamped, policy, fault, cons)
        THEN [ok |-> FALSE, table |-> t, stats |-> NoStats]
        ELSE LET new == on_conflict_do_nothing(t, stamped)
                 after_count == Len(new)
             IN  [ok |-> TRUE, table |-> new,
                  stats |-> load_stats(before_count, after_count, Len(df))]

verify_integrity(t) ==
    LET dupes == {k \in KeysOf(t) :
                     Cardinality({i \in DOMAIN t : t[i].id = k}) > 1}
        null_ids == Cardinality({i \in DOMAIN t : t[i].id = NULL})
    IN  dupes = {} /\ null_ids = 0

Faults == {"none", "connect", "schema", "insert", "verify"}

\* mutant: a failed integrity check makes the call raise
integrity_failure_is_fatal_too == TRUE

\* write_to_gold lines 321-327: a failed check is logged and reported,
\* nothing is raised
integrity_failure_is_fatal == FALSE

\* mutant: close() is the last statement of the try block
closes_on_return_only(exit) == IF exit = "return" THEN 1 ELSE 0

\* write_to_gold lines 331-334: the finally block calls conn.close() once,
\* whether the try block returns or raises
closes(exit) == 1

\* write_to_gold: the result record carries the new table, the returned
\* statistics (ok = FALSE: the call raised), the outcome of the integrity
\* check and the connections opened/closed. Every statement is committed
\* when it ends, so the rows of a finished INSERT stay when a later
\* statement raises
write_to_gold(t, df, corr, now, policy, fault, cons) ==
    IF fault = "connect"
    THEN [ok |-> FALSE, table |-> t, stats |-> NoStats, integrity |-> "not_run",
          opened |-> 0, closed |-> 0]
    ELSE IF fault = "schema"
    THEN [ok |-> FALSE, table |-> t, stats |-> NoStats, integrity |-> "not_run",
          opened |-> 1, closed |-> closes("raise")]
    ELSE LET u == upsert_data(t, df, corr, now, policy, fault, cons) IN
         IF ~u.ok
         THEN [ok |-> FALSE, table |-> t, stats |-> NoStats, integrity |-> "not_run",
               opened |-> 1, closed |-> closes("raise")]
         ELSE IF fault = "verify"
         THEN [ok |-> FALSE, table |-> u.table, stats |-> NoStats,
               integrity |-> "raised", opened |-> 1, closed |-> closes("raise")]
         ELSE IF ~verify_integrity(u.table) /\ integrity_failure_is_fatal
         THEN [ok |-> FALSE, table |-> u.table, stats |-> NoStats,
               integrity |-> "failed", opened |-> 1, closed |-> closes("raise")]
         ELSE [ok |-> TRUE, table |-> u.table,
               stats |-> [u.stats EXCEPT !.integrity_passed = verify_integrity(u.table)],
               integrity |-> IF verify_integrity(u.table) THEN "passed" ELSE "failed",
               opened |-> 1, closed |-> closes("return")]

\* what the store does with a key repeated inside one INSERT whose ON CONFLICT
\* clause is DO NOTHING depends on the DuckDB release: keep the first row, or
\* raise a constraint error
PkPolicies == {"first", "raise"}

\* the effect of one write_to_gold call on the store state
Load(df, corr, policy, fault) ==
    LET w == write_to_gold(table, df, corr, clock, policy, fault, pkey) IN
    /\ nloads < MaxLoads
    /\ table' = w.table
    /\ clock' = clock + 2
    /\ last' = [ok |-> w.ok, df |-> df, stats |-> w.stats, fault |-> fault,
                integrity |-> w.integrity]
    /\ pkey' = pkey
    /\ nloads' = nloads + 1
    /\ opened' = opened + w.opened
    /\ closed' = closed + w.closed

NoLoad == [ok |-> FALSE, df |-> <<>>, stats |-> NoStats, fault |-> "none",
           integrity |-> "not_run"]

\* ------------------------------------------------------------------
\* Job messages and objects
\* ------------------------------------------------------------------
\* msg.get("type", "") of a message without the field
NoType == ""
\* msg.get(...) of an absent bucket or prefix field
NoBucket == "none"
NoPrefix == "none"
Buckets == {"transform-data", "alt"}

\* transformer.py line 103 and line 449
PREFIX == "crash"
\* XFORM_BUCKET of the deployment
XFORM_BUCKET_ENV == "transform-data"
\* CLEAN_QUEUE of the deployment, default "clean"
CLEAN_QUEUE == "clean"

\* a message body: json is "object" for a JSON object, "array" for JSON that
\* is no object, "invalid" for bytes json.loads rejects
Job(type, corr, xb, cb, prefix) ==
    [json |-> "object", type |-> type, corr_id |-> corr, xform_bucket |-> xb,
     clean_bucket |-> cb, prefix |-> prefix]
InvalidBody ==
    [json |-> "invalid", type |-> NoType, corr_id |-> NoCorr,
     xform_bucket |-> NoBucket, clean_bucket |-> NoBucket, prefix |-> NoPrefix]
ArrayBody == [InvalidBody EXCEPT !.json = "array"]

\* what producers outside the runners put on the transform queue
TransformInputs ==
    { Job("transform", "R1", NoBucket, NoBucket, NoPrefix),
      Job("transform", "R2", "alt", NoBucket, NoPrefix),
      Job("transform", NoCorr, NoBucket, NoBucket, NoPrefix),
      Job("clean", "R1", NoBucket, "alt", NoPrefix),
      Job("unknown", "R1", NoBucket, NoBucket, NoPrefix),
      Job(NoType, "R1", NoBucket, NoBucket, NoPrefix),
      InvalidBody, ArrayBody }

\* what producers outside the runners put on the clean queue
\* (test_trigger_clean.py, and misdirected or damaged messages)
CleanInputs ==
    { Job("clean", "R1", "transform-data", NoBucket, PREFIX),
      Job("clean", "R2", "transform-data", NoBucket, PREFIX),
      Job("clean", NoCorr, "transform-data", NoBucket, PREFIX),
      Job("transform", "R1", NoBucket, NoBucket, NoPrefix),
      Job("unknown", "R2", NoBucket, NoBucket, NoPrefix),
      InvalidBody }

\* NaN / None in a column of numbers: it compares False with every number
NaN == 0 - 100000

\* cleaning_rules.py line 81
bool_cols == {"hit_and_run_i", "intersection_related_i", "private_property_i", "work_zone_i"}

\* the values a flag cell can hold after read_csv: text (a sequence of
\* characters), an integer, a float (in tenths), a boolean, or nothing
StrVal(s) == [t |-> "str", s |-> s]
IntVal(n) == [t |-> "int", n |-> n]
FloatVal(f) == [t |-> "float", f |-> f]
BoolVal(b) == [t |-> "bool", b |-> b]
NoValue == [t |-> "nan"]
NoFlags == [c \in bool_cols |-> NoValue]

\* text cells are sequences of characters; an empty cell of a CSV is read as
\* a missing value
NoCell == <<>>
CLEAR == <<"C", "L", "E", "A", "R">>
DAYLIGHT == <<"D", "A", "Y", "L", "I", "G", "H", "T">>

\* a crash record as the source API, the merge and the cleaner see it:
\* crash_record_id, crash_date (class), latitude and longitude (hundredths of
\* a degree), the four flags, posted_speed_limit and weather_condition; the
\* other columns modelled (lighting_condition, crash_hour, num_units) start
\* with ordinary values
Crash(id, date, lat, lng, flags, speed, weather) ==
    [id |-> id, date |-> date, lat |-> lat, lng |-> lng, flags |-> flags,
     speed |-> speed, weather |-> weather, light |-> DAYLIGHT, hour |-> 12,
     units |-> 2]

\* a record of the given coordinates class with ordinary other columns
\* ("in": 41.80, -87.70; "out": 43.00, -87.70)
Row(id, date, geo) ==
    Crash(id, date, IF geo = "in" THEN 4180 ELSE 4300, 0 - 8770, NoFlags, 30, CLEAR)

\* f"{prefix}/corr={corr}/merged.csv"
out_key(prefix, corr) == <<prefix, "corr=", corr, "merged.csv">>
ObjIds == {<<b, out_key(PREFIX, c)>> : b \in Buckets, c \in CorrIds}
Absent == [exists |-> FALSE, rows |-> <<>>, missing |-> {}]
\* a CSV object: its rows, and the required columns its header lacks
ObjectWithout(rows, cols) == [exists |-> TRUE, rows |-> rows, missing |-> cols]
Object(rows) == ObjectWithout(rows, {})

\* a child (vehicles, people) row: the parent key and one text column
Child(id, x) == [id |-> id, x |-> x]
\* None in the text column
NoText == "None"
\* the values of the text column, in sort order
Texts == <<"a", "b">>

\* a raw object of a run: what its bytes are, and the rows they encode
Page(kind, rows) == [kind |-> kind, rows |-> rows]
\*   array          a JSON array, plain
\*   gzip           a JSON array, gzipped
\*   envelope       {"data": [...]}
\*   fetch_error    get_object or read raises
\*   gzip_crc       gzip magic, BadGzipFile (an OSError) on decompression
\*   gzip_truncated gzip magic, EOFError on decompression
\*   utf8_text      a JSON array with bytes that are no UTF-8 inside a string
\*   utf8_syntax    bytes that are no UTF-8 and no JSON after replacement
\*   bad_json       text json.loads rejects
\*   not_array      JSON that is neither a list nor a dict with a "data" list
PageKinds ==
    {"array", "gzip", "envelope", "fetch_error", "gzip_crc", "gzip_truncated",
     "utf8_text", "utf8_syntax", "bad_json", "not_array"}

\* the raw pages of a run, per dataset alias in listing order
Pages(crashes, vehicles, people) ==
    [crashes |-> crashes, vehicles |-> vehicles, people |-> people]
OnePage(rows) == IF rows = <<>> THEN <<>> ELSE <<Page("array", rows)>>


\* the characters of the names that object keys are formatted from
chars(name) ==
    CASE name = "crash" -> <<"c", "r", "a", "s", "h">>
      [] name = "crashes" -> <<"c", "r", "a", "s", "h", "e", "s">>
      [] name = "vehicles" -> <<"v", "e", "h", "i", "c", "l", "e", "s">>
      [] name = "people" -> <<"p", "e", "o", "p", "l", "e">>
      [] name = "R1" -> <<"R", "1">>
      [] name = "R2" -> <<"R", "2">>
      [] name = "R10" -> <<"R", "1", "0">>
      [] name = "2023" -> <<"2", "0", "2", "3">>
      [] name = "2024" -> <<"2", "0", "2", "4">>

\* str.startswith, str.endswith and the substring test "needle in k"
startswith(k, p) == Len(p) <= Len(k) /\ SubSeq(k, 1, Len(p)) = p
endswith(k, suffix) ==
    Len(suffix) <= Len(k) /\ SubSeq(k, Len(k) - Len(suffix) + 1, Len(k)) = suffix
contains(needle, k) ==
    \E i \in 1..(Len(k) - Len(needle) + 1) : SubSeq(k, i, i + Len(needle) - 1) = needle

JSON_GZ == <<".", "j", "s", "o", "n", ".", "g", "z">>
JSON == <<".", "j", "s", "o", "n">>
GZ == <<".", "g", "z">>

\* an object of the raw bucket: its key and its page
RawObject(key, page) == [key |-> key, kind |-> page.kind, rows |-> page.rows]

\* the key of an object of a year partition of a run
raw_key(prefix, alias, year, dir, name) ==
    chars(prefix) \o <<"/">> \o chars(alias) \o <<"/", "y", "e", "a", "r", "=">> \o chars(year) \o <<"/">>
        \o dir \o <<"/">> \o name
\* the directory of a run inside a year partition
corr_dir(corr) == <<"c", "o", "r", "r", "=">> \o chars(corr)
\* the name of the i-th page of a partition
part(i, ext) == <<"p", "a", "r", "t", "-">> \o <<(<<"1", "2", "3">>)[i]>> \o ext

\* the pages of one alias of a run as objects of partition year=2024, a
\* gzipped page named .json.gz and any other page .json
Stored(alias, corr, pages) ==
    [i \in 1..Len(pages) |->
        RawObject(raw_key(PREFIX, alias, "2024", corr_dir(corr),
                          part(i, IF pages[i].kind \in {"gzip", "gzip_crc", "gzip_truncated"}
                                  THEN JSON_GZ ELSE JSON)),
                  pages[i])]
\* the raw bucket that holds the pages of runs R1 and R2, in listing order
\* (list_objects returns the keys in lexical order)
Bucket(r1, r2) ==
    Stored("crashes", "R1", r1.crashes) \o Stored("crashes", "R2", r2.crashes)
        \o Stored("people", "R1", r1.people) \o Stored("people", "R2", r2.people)
        \o Stored("vehicles", "R1", r1.vehicles) \o Stored("vehicles", "R2", r2.vehicles)

RawNone == Pages(<<>>, <<>>, <<>>)
RawOrphans == Pages(<<>>, OnePage(<<Child(1, "a")>>), <<>>)
RawTwo ==
    Pages(OnePage(<<Row(1, "null", "in"), Row(2, "ok", "in")>>),
          OnePage(<<Child(1, "b"), Child(1, "a")>>), OnePage(<<Child(2, "a")>>))
RawDup ==
    Pages(<<Page("array", <<Row(1, "ok", "in"), Row(1, "ok", "in")>>),
            Page("gzip", <<Row(1, "null", "in"), Row(2, "bad", "in")>>)>>,
          <<>>, <<>>)
RawR2 ==
    Pages(OnePage(<<Row(2, "ok", "in"), Row(1, "ok", "out")>>),
          OnePage(<<Child(2, "a")>>), <<>>)

\* the starting conditions explored: the raw pages of run R1, and the merged
\* object of run R2 found in the default bucket
Scenarios ==
    { [raw |-> RawTwo, merged |-> Absent],
      [raw |-> RawNone, merged |-> Object(<<>>)],
      [raw |-> RawOrphans, merged |-> Object(<<Row(1, "ok", "in"), Row(2, "ok", "in")>>)],
      [raw |-> RawDup, merged |-> Object(<<Row(2, "bad", "out")>>)],
      [raw |-> RawTwo, merged |-> Object(<<Row(NULL, "ok", "in")>>)],
      [raw |-> RawTwo, merged |-> Object(<<Row(2, "ok", "in"), Row(2, "ok", "in")>>)] }

\* ------------------------------------------------------------------
\* transformer.py: merge engine
\* ------------------------------------------------------------------
\* read_json_gz_array: ok = FALSE when it raises, else the rows it returns
read_json_gz_array(page) ==
    IF page.kind \in {"fetch_error", "gzip_truncated"}
    THEN [ok |-> FALSE, rows |-> <<>>]
    ELSE IF page.kind \in {"array", "gzip", "envelope", "utf8_text"}
    THEN [ok |-> TRUE, rows |-> page.rows]
    ELSE [ok |-> TRUE, rows |-> <<>>]

\* list_objects_recursive: the objects whose key starts with the prefix
list_objects_recursive(bucket, prefix) ==
    SelectSeq(bucket, LAMBDA o : startswith(o.key, prefix))

\* _keys_for_corr: the objects of an alias that are pages of run corr
keys_for_corr(bucket, prefix, dataset_alias, corr) ==
    LET base == chars(prefix) \o <<"/">> \o chars(dataset_alias) \o <<"/">>
        keys == list_objects_recursive(bucket, base)
        needle == <<"/">> \o corr_dir(corr) \o <<"/">>
    IN  SelectSeq(keys, LAMBDA k :
            /\ endswith(k.key, JSON_GZ) \/ endswith(k.key, JSON)
            /\ contains(needle, k.key))

\* load_dataset: the rows of the pages in listing order; an error raised for
\* one page ends the loop
RECURSIVE load_dataset(_)
load_dataset(pages) ==
    IF pages = <<>> THEN [ok |-> TRUE, rows |-> <<>>]
    ELSE LET h == read_json_gz_array(Head(pages)) IN
         IF ~h.ok THEN [ok |-> FALSE, rows |-> <<>>]
         ELSE LET t == load_dataset(Tail(pages)) IN
              IF ~t.ok THEN t ELSE [ok |-> TRUE, rows |-> h.rows \o t.rows]

\* DataFrame.unique(maintain_order=True): exact duplicate rows dropped
RECURSIVE unique_rows(_)
unique_rows(rows) ==
    IF rows = <<>> THEN <<>>
    ELSE LET init == unique_rows(SubSeq(rows, 1, Len(rows) - 1))
             r == rows[Len(rows)]
         IN  IF \E i \in DOMAIN init : init[i] = r THEN init ELSE Append(init, r)

\* mutant: keep="last"
RECURSIVE unique_last(_)
unique_last(rows) ==
    IF rows = <<>> THEN <<>>
    ELSE LET rest == unique_last(Tail(rows))
             r == Head(rows)
         IN  IF \E i \in DOMAIN rest : rest[i].id = r.id THEN rest ELSE <<r>> \o rest

\* DataFrame.unique(subset=[id], keep="first", maintain_order=True)
RECURSIVE unique_first(_)
unique_first(rows) ==
    IF rows = <<>> THEN <<>>
    ELSE LET init == unique_first(SubSeq(rows, 1, Len(rows) - 1))
             r == rows[Len(rows)]
         IN  IF \E i \in DOMAIN init : init[i].id = r.id THEN init ELSE Append(init, r)

basic_standardize(rows) == unique_rows(rows)

\* mutant: the list keeps the values in first-seen order
RECURSIVE first_seen_distinct(_)
first_seen_distinct(vals) ==
    IF vals = <<>> THEN <<>>
    ELSE LET init == first_seen_distinct(SubSeq(vals, 1, Len(vals) - 1))
             v == vals[Len(vals)]
         IN  IF v = NoText \/ \E i \in DOMAIN init : init[i] = v THEN init
             ELSE Append(init, v)

\* pl.col(c).drop_nulls().cast(pl.Utf8).unique().sort().implode()
sorted_distinct(vals) ==
    LET Occurs(v) == \E i \in DOMAIN vals : vals[i] = v IN
    SelectSeq(Texts, Occurs)

\* mutant: the count is the number of distinct values of the text column
count_distinct_values(group) ==
    Cardinality({group[i].x : i \in DOMAIN group} \ {NoText})

\* pl.len()
group_len(group) == Len(group)

\* aggregate_many_to_one: one row per key in first-seen order, with the
\* group's row count and, for each text column, its list; a column whose
\* values are all None has no text type and gets no list
aggregate_many_to_one(df) ==
    LET keys == unique_first([i \in DOMAIN df |-> [id |-> df[i].id]])
        text_cols == IF \E i \in DOMAIN df : df[i].x # NoText THEN <<"x">> ELSE <<>>
        Group(k) == SelectSeq(df, LAMBDA r : r.id = k)
        Xs(g) == [i \in DOMAIN g |-> g[i].x]
    IN  [i \in DOMAIN keys |->
            LET g == Group(keys[i].id) IN
            [id |-> keys[i].id, count |-> group_len(g),
             lists |-> [c \in DOMAIN text_cols |-> sorted_distinct(Xs(g))]]]

\* the columns DataFrame.join(agg, on=id, how="left") adds to a parent row:
\* the aggregate of its key, or nulls (here: no entry) when no aggregate row
\* has the key; a null key matches nothing
left_join(r, agg) ==
    LET m == SelectSeq(agg, LAMBDA a : a.id = r.id /\ r.id # NULL) IN
    [i \in DOMAIN m |-> [count |-> m[i].count, lists |-> m[i].lists]]

\* what the final unique(subset=[id]) does on a frame without any column
EmptyModes == {"empty", "raise"}

\* merge_crash_vehicles_people: ok = FALSE when it raises. Without parent
\* rows the parent frame has no column: a join on the key raises
merge_crash_vehicles_people(crashes, vehicles, people, em) ==
    LET c == basic_standardize(crashes)
        veh_agg == aggregate_many_to_one(basic_standardize(vehicles))
        ppl_agg == aggregate_many_to_one(basic_standardize(people))
    IN  IF c = <<>>
        THEN IF veh_agg # <<>> \/ ppl_agg # <<>> \/ em = "raise"
             THEN [ok |-> FALSE, rows |-> <<>>]
             ELSE [ok |-> TRUE, rows |-> <<>>]
        ELSE [ok |-> TRUE,
              rows |-> unique_first(
                  [i \in DOMAIN c |->
                      c[i] @@ [veh |-> left_join(c[i], veh_agg),
                               ppl |-> left_join(c[i], ppl_agg)]])]

\* run_transform_job, line 314
out_bucket(msg) ==
    IF msg.xform_bucket # NoBucket THEN msg.xform_bucket
    ELSE IF msg.clean_bucket # NoBucket THEN msg.clean_bucket
    ELSE XFORM_BUCKET_ENV

TFaults == {"none", "s3", "put"}

\* run_transform_job: ok = FALSE when it raises (err says where), else the
\* object it wrote
run_transform_job(msg, rawdata, fault, em) ==
    LET failed(err) == [ok |-> FALSE, id |-> <<>>, rows |-> <<>>, err |-> err] IN
    IF msg.corr_id = NoCorr \/ out_bucket(msg) = NoBucket THEN failed("job")
    ELSE IF fault = "s3" THEN failed("store")
    ELSE LET crashes_df ==
                 load_dataset(keys_for_corr(rawdata, PREFIX, "crashes", msg.corr_id))
             vehicles_df ==
                 load_dataset(keys_for_corr(rawdata, PREFIX, "vehicles", msg.corr_id))
             people_df ==
                 load_dataset(keys_for_corr(rawdata, PREFIX, "people", msg.corr_id))
         IN  IF ~crashes_df.ok \/ ~vehicles_df.ok \/ ~people_df.ok THEN failed("page")
             ELSE LET merged == merge_crash_vehicles_people(
                                    crashes_df.rows, vehicles_df.rows, people_df.rows, em)
                  IN  IF ~merged.ok THEN failed("merge")
                      ELSE IF fault = "put" THEN failed("store")
                      ELSE [ok |-> TRUE,
                            id |-> <<out_bucket(msg), out_key(PREFIX, msg.corr_id)>>,
                            rows |-> merged.rows, err |-> "none"]

\* mutant: the clean job always names the default bucket
clean_msg_default_bucket(corr_id, xform_bucket, prefix) ==
    Job("clean", corr_id, XFORM_BUCKET_ENV, NoBucket, prefix)

\* publish_clean_job, lines 359-366
clean_msg(corr_id, xform_bucket, prefix) ==
    Job("clean", corr_id, xform_bucket, NoBucket, prefix)

\* publish_clean_job, lines 369-375: the publication as the broker sees it
publish_clean_job(corr_id, xform_bucket, prefix) ==
    [body |-> clean_msg(corr_id, xform_bucket, prefix),
     queue |-> CLEAN_QUEUE, durable |-> TRUE, delivery_mode |-> 2]

\* ------------------------------------------------------------------
\* minio_io.py, cleaning_rules.py: cleaning engine
\* ------------------------------------------------------------------
\* download_silver_csv(corr_id): the defaults of its bucket and prefix
\* parameters are always used
SILVER_BUCKET == "transform-data"
SILVER_PREFIX == "crash"

download_silver_csv(store, corr_id, fault) ==
    LET key == <<SILVER_BUCKET, out_key(SILVER_PREFIX, corr_id)>>
        obj == store[key]
    IN  IF fault = "s3" \/ ~obj.exists \/ obj.rows = <<>>
        THEN [ok |-> FALSE, rows |-> <<>>, missing |-> {}, key |-> key]
        ELSE [ok |-> TRUE, rows |-> obj.rows, missing |-> obj.missing, key |-> key]

\* str.strip() and str.lower() on sequences of characters
Whitespace == {" ", "\t", "\n"}
Uppercase == <<"A", "B", "C", "D", "E", "F", "G", "H", "I", "J", "K", "L", "M",
               "N", "O", "P", "Q", "R", "S", "T", "U", "V", "W", "X", "Y", "Z">>
Lowercase == <<"a", "b", "c", "d", "e", "f", "g", "h", "i", "j", "k", "l", "m",
               "n", "o", "p", "q", "r", "s", "t", "u", "v", "w", "x", "y", "z">>
Digits == <<"0", "1", "2", "3", "4", "5", "6", "7", "8", "9">>

RECURSIVE lstrip(_)
lstrip(s) == IF s # <<>> /\ Head(s) \in Whitespace THEN lstrip(Tail(s)) ELSE s
RECURSIVE rstrip(_)
rstrip(s) ==
    IF s # <<>> /\ s[Len(s)] \in Whitespace THEN rstrip(SubSeq(s, 1, Len(s) - 1)) ELSE s
strip(s) == rstrip(lstrip(s))

lower(s) ==
    [i \in DOMAIN s |->
        IF \E k \in DOMAIN Uppercase : Uppercase[k] = s[i]
        THEN Lowercase[CHOOSE k \in DOMAIN Uppercase : Uppercase[k] = s[i]]
        ELSE s[i]]

\* str() of a non-negative integer
RECURSIVE str_int(_)
str_int(n) ==
    IF n < 10 THEN <<Digits[n + 1]>> ELSE str_int(n \div 10) \o <<Digits[(n % 10) + 1]>>

\* str(value) for the kinds of value a cell holds
str(value) ==
    CASE value.t = "str" -> value.s
      [] value.t = "int" -> str_int(value.n)
      [] value.t = "float" -> str_int(value.f \div 10) \o <<".">> \o str_int(value.f % 10)
      [] value.t = "bool" -> IF value.b THEN <<"T", "r", "u", "e">>
                             ELSE <<"F", "a", "l", "s", "e">>

\* cleaning_rules.py line 74
TrueWords ==
    { <<"y">>, <<"y", "e", "s">>, <<"t", "r", "u", "e">>, <<"t">>, <<"1">>,
      <<"1", ".", "0">> }

\* mutant: a missing value counts as set
standardize_boolean_null_set(value) ==
    IF value.t = "nan" THEN 1
    ELSE IF lower(strip(str(value))) \in TrueWords THEN 1 ELSE 0

\* cleaning_rules.py lines 57-78
standardize_boolean(value) ==
    IF value.t = "nan" THEN 0
    ELSE IF lower(strip(str(value))) \in TrueWords THEN 1 ELSE 0

\* cleaning_rules.py lines 128-131, in hundredths of a degree
CHICAGO_LAT_MIN == 4160
CHICAGO_LAT_MAX == 4210
CHICAGO_LNG_MIN == 0 - 8800
CHICAGO_LNG_MAX == 0 - 8750

\* cleaning_rules.py lines 134-140: every comparison with NaN is False
invalid_coords(r) ==
    \/ r.lat # NaN /\ r.lat = 0 /\ r.lng # NaN /\ r.lng = 0
    \/ r.lat # NaN /\ (r.lat < CHICAGO_LAT_MIN \/ r.lat > CHICAGO_LAT_MAX)
    \/ r.lng # NaN /\ (r.lng < CHICAGO_LNG_MIN \/ r.lng > CHICAGO_LNG_MAX)

\* Series.median(): NaN is skipped; NaN when nothing is left
RECURSIVE insert_sorted(_, _)
insert_sorted(x, s) ==
    IF s = <<>> THEN <<x>>
    ELSE IF x <= Head(s) THEN <<x>> \o s
    ELSE <<Head(s)>> \o insert_sorted(x, Tail(s))
RECURSIVE sort_values(_)
sort_values(s) == IF s = <<>> THEN <<>> ELSE insert_sorted(Head(s), sort_values(Tail(s)))
NotNaN(x) == x # NaN
median(vals) ==
    LET v == sort_values(SelectSeq(vals, NotNaN))
        n == Len(v)
    IN  IF n = 0 THEN NaN
        ELSE IF n % 2 = 1 THEN v[(n + 1) \div 2]
        ELSE (v[n \div 2] + v[(n \div 2) + 1]) \div 2

\* cleaning_rules.py lines 198-202: fillna(median) of one numeric column
fillna_median(vals) ==
    LET m == median(vals) IN [i \in DOMAIN vals |-> IF vals[i] = NaN THEN m ELSE vals[i]]

\* mutant: the case is kept
upper_kept(s) == s

\* Series.str.upper(): a missing cell stays missing
upper(s) ==
    [i \in DOMAIN s |->
        IF \E k \in DOMAIN Lowercase : Lowercase[k] = s[i]
        THEN Uppercase[CHOOSE k \in DOMAIN Lowercase : Lowercase[k] = s[i]]
        ELSE s[i]]

SNOW == <<"S", "N", "O", "W">>
Other == <<"O", "T", "H", "E", "R">>

\* cleaning_rules.py lines 157, 166, 170
valid_lighting ==
    {
      <<"D", "A", "R", "K", "N", "E", "S", "S", ",", " ", "L", "I", "G", "H", "T", "E", "D", " ", "R", "O", "A", "D">>,
      <<"U", "N", "K", "N", "O", "W", "N">>,
      <<"D", "A", "R", "K", "N", "E", "S", "S">>, <<"D", "A", "W", "N">>,
      <<"D", "A", "Y", "L", "I", "G", "H", "T">>, <<"D", "U", "S", "K">> }
snow_conditions ==
    {
      <<"S", "N", "O", "W">>,
      <<"B", "L", "O", "W", "I", "N", "G", " ", "S", "N", "O", "W">>,
      <<"S", "L", "E", "E", "T", "/", "H", "A", "I", "L">>,
      <<"F", "R", "E", "E", "Z", "I", "N", "G", " ", "R", "A", "I", "N", "/", "D", "R", "I", "Z", "Z", "L", "E">> }
valid_weather ==
    {
      <<"C", "L", "O", "U", "D", "Y", "/", "O", "V", "E", "R", "C", "A", "S", "T">>,
      <<"C", "L", "E", "A", "R">>, <<"R", "A", "I", "N">>, <<"S", "N", "O", "W">> }

\* cleaning_rules.py lines 158-159: upper-case, then OTHER for whatever is
\* not in the vocabulary (a missing cell is not in it)
normalize(w, vocabulary) ==
    LET u == upper(w) IN IF u \in vocabulary THEN u ELSE Other

\* cleaning_rules.py lines 162-171
consolidate_weather(w) ==
    LET u == upper(w)
        v == IF u \in snow_conditions THEN SNOW ELSE u
    IN  IF v \in valid_weather THEN v ELSE Other

\* cleaning_rules.py lines 100-110: a comparison with NaN is False
add_hour_bin(val) ==
    IF val # NaN /\ val <= 6 THEN "night"
    ELSE IF val # NaN /\ val <= 12 THEN "morning"
    ELSE IF val # NaN /\ val <= 18 THEN "afternoon"
    ELSE IF val # NaN /\ val <= 23 THEN "evening"
    ELSE NoText

\* mutant: the ceiling is applied one unit late
cap_late(v, ceiling) == IF v # NaN /\ v > ceiling + 1 THEN ceiling ELSE v

\* cleaning_rules.py lines 219 and 222: df.loc[df[col] > ceiling, col] = ceiling
cap(v, ceiling) == IF v # NaN /\ v > ceiling THEN ceiling ELSE v

\* cleaning_rules.py lines 31-37
req_cols ==
    {"crash_record_id", "beat_of_occurrence", "crash_date", "crash_day_of_week",
     "crash_hour", "crash_type", "hit_and_run_i", "num_units", "injuries_total",
     "lighting_condition", "latitude", "longitude", "posted_speed_limit", "road_defect",
     "roadway_surface_cond", "street_direction", "trafficway_type", "weather_condition",
     "intersection_related_i", "traffic_control_device", "work_zone_i",
     "private_property_i"}
\* the columns clean_data adds: lines 97, 112, 146-150
derived_cols == {"is_weekend", "hour_bin", "lat_bin", "lng_bin", "grid_id"}

\* how Series.round() treats an empty column of dtype object
PandasModes == {"lenient", "strict"}

\* cleaning_rules.py lines 38-51: a required column the header lacks is a
\* column of None
project(rows, missing) ==
    [i \in DOMAIN rows |->
        [id |-> IF "crash_record_id" \in missing THEN NULL ELSE rows[i].id,
         date |-> IF "crash_date" \in missing THEN "null" ELSE rows[i].date,
         lat |-> IF "latitude" \in missing THEN NaN ELSE rows[i].lat,
         lng |-> IF "longitude" \in missing THEN NaN ELSE rows[i].lng,
         flags |-> [c \in bool_cols |->
                       IF c \in missing THEN NoValue ELSE rows[i].flags[c]],
         speed |-> IF "posted_speed_limit" \in missing THEN NaN ELSE rows[i].speed,
         weather |-> IF "weather_condition" \in missing THEN NoCell
                     ELSE rows[i].weather,
         light |-> IF "lighting_condition" \in missing THEN NoCell ELSE rows[i].light,
         hour |-> IF "crash_hour" \in missing THEN NaN ELSE rows[i].hour,
         units |-> IF "num_units" \in missing THEN NaN ELSE rows[i].units,
         hour_bin |-> NoText]]

\* cleaning_rules.py lines 38-222 on the downloaded frame: ok = FALSE when a
\* step raises; dated = the rows that passed the date rule; df = the result;
\* columns = the columns of the result. The required columns that are not
\* modelled are texts or counts that no statement compares with a number: a
\* column of None among them is filled in like any other
clean_frame(rows, missing, pm) ==
    LET existing_cols == req_cols \ missing
        add_cols == req_cols \cap missing
        df0 == project(rows, missing)
        \* line 112: add_hour_bin(None) compares None with 6
        hour_object == "crash_hour" \in missing
        \* lines 83-88
        df1 == [i \in DOMAIN df0 |->
                   [df0[i] EXCEPT !.flags = [c \in bool_cols |->
                                                standardize_boolean(df0[i].flags[c])]]]
        \* line 116
        HasDate(r) == r.date # "null"
        dated == SelectSeq(df1, HasDate)
        \* line 119
        bad_date == \E i \in DOMAIN dated : dated[i].date = "bad"
        \* lines 134-140: a column of None cannot be compared with a number
        geo_object == "latitude" \in missing \/ "longitude" \in missing
        Valid(r) == ~invalid_coords(r)
        kept == SelectSeq(dated, Valid)
        \* lines 146-147
        round_raises == geo_object /\ kept = <<>> /\ pm = "strict"
        \* lines 158 and 163: .str on a column read as float64 (present, never
        \* filled in)
        weather_float == /\ "weather_condition" \notin missing
                         /\ \A i \in DOMAIN rows : rows[i].weather = NoCell
        light_float == /\ "lighting_condition" \notin missing
                       /\ \A i \in DOMAIN rows : rows[i].light = NoCell
        \* lines 192-202
        lat == fillna_median([i \in DOMAIN kept |-> kept[i].lat])
        lng == fillna_median([i \in DOMAIN kept |-> kept[i].lng])
        speed == fillna_median([i \in DOMAIN kept |-> kept[i].speed])
        hour == fillna_median([i \in DOMAIN kept |-> kept[i].hour])
        units == fillna_median([i \in DOMAIN kept |-> kept[i].units])
        \* lines 205-212, 219 and 222: 'OTHER' cannot be compared with a number
        speed_object == "posted_speed_limit" \in missing /\ kept # <<>>
        units_object == "num_units" \in missing /\ kept # <<>>
        out == [i \in DOMAIN kept |->
                   [kept[i] EXCEPT !.lat = lat[i], !.lng = lng[i],
                                   !.speed = cap(speed[i], 75),
                                   !.units = cap(units[i], 10),
                                   !.hour = hour[i],
                                   \* lines 112 and 205-212
                                   !.hour_bin = IF add_hour_bin(kept[i].hour) = NoText
                                                THEN "OTHER"
                                                ELSE add_hour_bin(kept[i].hour),
                                   !.light = normalize(kept[i].light, valid_lighting),
                                   !.weather = consolidate_weather(kept[i].weather)]]
    IN  IF hour_object
        THEN [ok |-> FALSE, dated |-> <<>>, df |-> <<>>, columns |-> {}]
        ELSE IF \/ bad_date
                \/ geo_object /\ dated # <<>>
                \/ round_raises
                \/ weather_float
                \/ light_float
                \/ speed_object
                \/ units_object
        THEN [ok |-> FALSE, dated |-> IF bad_date THEN dated ELSE <<>>, df |-> <<>>,
              columns |-> {}]
        ELSE [ok |-> TRUE, dated |-> dated, df |-> out,
              columns |-> existing_cols \cup add_cols \cup derived_cols]

\* clean_data: ok = FALSE when it raises; src = the downloaded rows; seen =
\* the rows that had passed the date rule when to_datetime raised; df = the
\* cleaned rows it returns; key = the object it asked the store for
clean_data(store, corr_id, fault, pm) ==
    LET d == download_silver_csv(store, corr_id, fault)
        c == clean_frame(d.rows, d.missing, pm)
    IN  IF ~d.ok
        THEN [ok |-> FALSE, src |-> <<>>, seen |-> <<>>, df |-> <<>>, key |-> d.key,
              columns |-> {}]
        ELSE IF ~c.ok
        THEN [ok |-> FALSE, src |-> d.rows,
              seen |-> [i \in DOMAIN c.dated |-> [id |-> c.dated[i].id]],
              df |-> <<>>, key |-> d.key, columns |-> {}]
        ELSE [ok |-> TRUE, src |-> d.rows, seen |-> <<>>, df |-> c.df, key |-> d.key,
              columns |-> c.columns]

\* process_clean_job, lines 160-179: everything before the load step
process_clean_job_clean(msg, store, fault, pm) ==
    IF msg.corr_id = NoCorr
    THEN [ok |-> FALSE, src |-> <<>>, seen |-> <<>>, df |-> <<>>, key |-> <<>>,
          columns |-> {}]
    ELSE clean_data(store, msg.corr_id, fault, pm)

\* mutant: rows are committed while they are being cleaned
table_after_clean_eager(t, res) ==
    t \o [i \in DOMAIN res.seen |->
             [id |-> res.seen[i].id, corr_id |-> NoCorr, inserted_at |-> 0, updated_at |-> 0]]

\* process_clean_job, lines 160-179: no store statement is issued before
\* write_to_gold is called
table_after_clean(t, res) == t

\* ------------------------------------------------------------------
\* transformer.py on_msg, cleaner.py on_message
\* ------------------------------------------------------------------
Runners == {"T", "C"}
Tags == 1..MaxDeliv

\* --- start_consumer up to start_consuming (both runners)
\* wait_for_port(host, port, tries=60, delay=1.0)
tries == 60
\* start_consumer: max_tries = 60
max_tries == 60

\* the process of a runner: phase = the position in start_consumer, polls =
\* TCP polls made by wait_for_port, attempts = BlockingConnection attempts,
\* conn = the connection, declared = queue_declare was called, interrupted =
\* the delivery tag whose handler a KeyboardInterrupt cut short (0: none)
Starting ==
    [phase |-> "wait_for_port", polls |-> 0, attempts |-> 0, conn |-> "none",
     declared |-> FALSE, interrupted |-> 0]
\* a process whose first poll and first connection attempt succeeded
Consuming ==
    [phase |-> "consuming", polls |-> 1, attempts |-> 1, conn |-> "open",
     declared |-> TRUE, interrupted |-> 0]

\* mutant: the polling loop makes one iteration too many
port_loop_ended_late(polls) == polls >= tries + 1

\* for _ in range(tries): the loop has run out
port_loop_ended(polls) == polls >= tries

\* mutant: the connection is not checked before the channel is opened
fatal_without_connection_lax(conn) == FALSE

\* if conn is None or not conn.is_open: raise SystemExit
fatal_without_connection(conn) == conn # "open"

\* for i in range(1, max_tries + 1): the loop has run out
connect_loop_ended(attempts) == attempts >= max_tries

\* one iteration of the loop of wait_for_port; when the loop runs out
\* start_consumer raises SystemExit
PollPort(r) ==
    /\ proc[r].phase = "wait_for_port"
    /\ ~port_loop_ended(proc[r].polls)
    /\ \E reachable \in BOOLEAN :
          LET n == proc[r].polls + 1 IN
          proc' = [proc EXCEPT ![r].polls = n,
                               ![r].phase = IF reachable THEN "connect"
                                            ELSE IF port_loop_ended(n) THEN "exit"
                                            ELSE "wait_for_port"]
    /\ UNCHANGED <<loadVars, tq, cq, raw, objs, tr, cl, deliv, acks, nacks, ran, raised,
                   pubs, wrote, gauge, npub, cleaned>>

\* what pika.BlockingConnection(params) does: return an open connection,
\* return one that is_open denies, raise one of the three caught errors, or
\* raise another error
ConnectOutcomes == {"open", "not_open", "amqp_error", "other_error"}

\* one iteration of the connection loop, and the check after the loop
Connect(r) ==
    /\ proc[r].phase = "connect"
    /\ ~connect_loop_ended(proc[r].attempts)
    /\ \E o \in ConnectOutcomes :
          LET n == proc[r].attempts + 1
              conn == IF o = "open" THEN "open"
                      ELSE IF o = "not_open" THEN "closed" ELSE "none"
              leaves == o \in {"open", "not_open"} \/ connect_loop_ended(n)
          IN  proc' = [proc EXCEPT
                  ![r].attempts = n,
                  ![r].conn = conn,
                  ![r].phase = IF o = "other_error" THEN "exit"
                               ELSE IF ~leaves THEN "connect"
                               ELSE IF fatal_without_connection(conn) THEN "exit"
                               ELSE "setup"]
    /\ UNCHANGED <<loadVars, tq, cq, raw, objs, tr, cl, deliv, acks, nacks, ran, raised,
                   pubs, wrote, gauge, npub, cleaned>>

\* conn.channel(), queue_declare, basic_qos, basic_consume, start_consuming;
\* an error of the broker here is not caught
Setup(r) ==
    /\ proc[r].phase = "setup"
    /\ \E ok \in BOOLEAN :
          proc' = [proc EXCEPT ![r].declared = ok /\ proc[r].conn = "open",
                               ![r].phase = IF ok THEN "consuming" ELSE "exit"]
    /\ UNCHANGED <<loadVars, tq, cq, raw, objs, tr, cl, deliv, acks, nacks, ran, raised,
                   pubs, wrote, gauge, npub, cleaned>>


Tag(r) == Len(deliv[r])
Msg(r) == deliv[r][Tag(r)]

\* mutant: the merge stage also takes messages without a type
transform_types_lax == {"transform", "clean", NoType}

\* on_msg, line 434
transform_types == {"transform", "clean"}

\* mutant: the clean stage takes every type
clean_types_any == {"clean", "transform", "unknown"}

\* on_message, line 273
clean_types == {"clean"}

\* mutant: the acknowledgement is never sent
basic_ack_lost(a, r, tag) == a

\* channel.basic_ack(delivery_tag=method.delivery_tag)
basic_ack(a, r, tag) == [a EXCEPT ![r][tag] = @ + 1]

\* channel.basic_nack(delivery_tag=method.delivery_tag, requeue=...)
basic_nack(n, r, tag, requeue) == [n EXCEPT ![r][tag] = Append(@, requeue)]

\* mutant: failed jobs are requeued
on_error_requeue_true == TRUE

\* the requeue argument of the except branch, cleaner.py line 304 and
\* transformer.py line 459
on_error_requeue == FALSE

TIdle == [pc |-> "idle", err |-> "none"]
CIdle == [pc |-> "idle", stage |-> "none", df |-> <<>>, src |-> <<>>, redo |-> FALSE,
          fault |-> "none", before |-> <<>>, key |-> <<>>, columns |-> {}]

\* the state before any delivery: rawR1 = the raw pages of run R1, m = the
\* merged object of run R2 found in the default bucket, tmsgs and cmsgs = the
\* messages waiting on the transform queue and on the clean queue
InitPipeBucket(bucket, m, tmsgs, cmsgs) ==
    /\ tq = tmsgs
    /\ cq = cmsgs
    /\ raw = bucket
    /\ objs = [o \in ObjIds |->
                  IF o = <<SILVER_BUCKET, out_key(PREFIX, "R2")>> THEN m ELSE Absent]
    /\ tr = TIdle
    /\ cl = CIdle
    /\ deliv = [r \in Runners |-> <<>>]
    /\ acks = [r \in Runners |-> [t \in Tags |-> 0]]
    /\ nacks = [r \in Runners |-> [t \in Tags |-> <<>>]]
    /\ ran = [r \in Runners |-> {}]
    /\ raised = [r \in Runners |-> {}]
    /\ pubs = [t \in Tags |-> <<>>]
    /\ wrote = [t \in Tags |-> {}]
    /\ gauge = [r \in Runners |-> 0]
    /\ npub = 0
    /\ cleaned = [c \in CorrIds |-> [acked |-> FALSE, obj |-> <<>>]]

\* the same with the raw bucket holding rawR1 = the raw pages of run R1,
\* and the pages of run R2
InitPipeQueues(rawR1, m, tmsgs, cmsgs) ==
    InitPipeBucket(Bucket(rawR1, RawR2), m, tmsgs, cmsgs)

\* the state before any message
InitPipeWith(rawR1, m) == InitPipeQueues(rawR1, m, <<>>, <<>>)

\* a store file holding table t under constraint cons, before any call
InitStore(t, cons) ==
    /\ table = t
    /\ pkey = cons
    /\ clock = 0
    /\ last = NoLoad
    /\ nloads = 0
    /\ opened = 0
    /\ closed = 0

\* a new store file
InitLoad == InitStore(<<>>, "primary_key")

\* --- producers outside the runners
PublishTransformJob ==
    /\ npub < MaxPub
    /\ \E m \in TransformInputs : tq' = Append(tq, m)
    /\ npub' = npub + 1
    /\ UNCHANGED proc
    /\ UNCHANGED <<loadVars, cq, raw, objs, tr, cl, deliv, acks, nacks, ran, raised,
                   pubs, wrote, gauge, cleaned>>

PublishCleanJob ==
    /\ npub < MaxPub
    /\ \E m \in CleanInputs : cq' = Append(cq, m)
    /\ npub' = npub + 1
    /\ UNCHANGED proc
    /\ UNCHANGED <<loadVars, tq, raw, objs, tr, cl, deliv, acks, nacks, ran, raised,
                   pubs, wrote, gauge, cleaned>>

\* --- merge stage runner
\* the broker delivers the next message and on_msg runs up to the dispatch
\* (lines 425-441): parse, and ack and return on a type it ignores
TDeliver ==
    /\ proc["T"].phase = "consuming"
    /\ tr.pc = "idle"
    /\ tq # <<>>
    /\ Len(deliv["T"]) < MaxDeliv
    /\ deliv' = [deliv EXCEPT !["T"] = Append(@, Head(tq))]
    /\ tq' = Tail(tq)
    /\ LET m == Head(tq)
           tag == Len(deliv["T"]) + 1
       IN  IF m.json # "object"
           THEN /\ tr' = [pc |-> "except", err |-> "json"]
                /\ raised' = [raised EXCEPT !["T"] = @ \cup {tag}]
                /\ gauge' = [gauge EXCEPT !["T"] = @ + 1]
                /\ UNCHANGED acks
           ELSE IF m.type \notin transform_types
           THEN /\ acks' = basic_ack(acks, "T", tag)
                /\ gauge' = [gauge EXCEPT !["T"] = @ + 1 - 2]
                /\ tr' = TIdle
                /\ UNCHANGED raised
           ELSE /\ tr' = [pc |-> "run", err |-> "none"]
                /\ gauge' = [gauge EXCEPT !["T"] = @ + 1]
                /\ UNCHANGED <<acks, raised>>
    /\ UNCHANGED proc
    /\ UNCHANGED <<loadVars, cq, raw, objs, cl, nacks, ran, pubs, wrote, npub, cleaned>>

\* mutant: the message is acked as soon as the merge has returned
after_run_ack == "ack"

\* on_msg lines 444-450: the statement after run_transform_job is
\* publish_clean_job
after_run == "publish"

\* on_msg line 444: run_transform_job
TRun ==
    /\ tr.pc = "run"
    /\ \E fault \in TFaults, em \in EmptyModes :
          LET res == run_transform_job(Msg("T"), raw, fault, em) IN
          IF res.ok
          THEN /\ objs' = [objs EXCEPT ![res.id] = Object(res.rows)]
               /\ wrote' = [wrote EXCEPT ![Tag("T")] = @ \cup {res.id}]
               /\ tr' = [pc |-> after_run, err |-> "none"]
               /\ UNCHANGED raised
          ELSE /\ tr' = [pc |-> "except", err |-> res.err]
               /\ raised' = [raised EXCEPT !["T"] = @ \cup {Tag("T")}]
               /\ UNCHANGED <<objs, wrote>>
    /\ ran' = [ran EXCEPT !["T"] = @ \cup {Tag("T")}]
    /\ UNCHANGED proc
    /\ UNCHANGED <<loadVars, tq, cq, raw, cl, deliv, acks, nacks, pubs, gauge, npub,
                   cleaned>>

\* on_msg lines 447-450: publish_clean_job
TPublish ==
    /\ tr.pc = "publish"
    /\ \E fault \in {"none", "amqp"} :
          LET m == Msg("T")
              p == publish_clean_job(m.corr_id, out_bucket(m), PREFIX)
          IN  IF fault = "none"
              THEN /\ cq' = Append(cq, p.body)
                   /\ pubs' = [pubs EXCEPT ![Tag("T")] = Append(@, p)]
                   /\ tr' = [pc |-> "ack", err |-> "none"]
                   /\ UNCHANGED raised
              ELSE /\ tr' = [pc |-> "except", err |-> "amqp"]
                   /\ raised' = [raised EXCEPT !["T"] = @ \cup {Tag("T")}]
                   /\ UNCHANGED <<cq, pubs>>
    /\ UNCHANGED proc
    /\ UNCHANGED <<loadVars, tq, raw, objs, cl, deliv, acks, nacks, ran, wrote, gauge,
                   npub, cleaned>>

\* on_msg lines 453-454 and the finally block
TAck ==
    /\ tr.pc = "ack"
    /\ acks' = basic_ack(acks, "T", Tag("T"))
    /\ gauge' = [gauge EXCEPT !["T"] = @ - 1]
    /\ tr' = TIdle
    /\ UNCHANGED proc
    /\ UNCHANGED <<loadVars, tq, cq, raw, objs, cl, deliv, nacks, ran, raised, pubs,
                   wrote, npub, cleaned>>

\* on_msg lines 456-459 and the finally block
TExcept ==
    /\ tr.pc = "except"
    /\ nacks' = basic_nack(nacks, "T", Tag("T"), on_error_requeue)
    /\ tq' = IF on_error_requeue THEN <<Msg("T")>> \o tq ELSE tq
    /\ gauge' = [gauge EXCEPT !["T"] = @ - 1]
    /\ tr' = TIdle
    /\ UNCHANGED proc
    /\ UNCHANGED <<loadVars, cq, raw, objs, cl, deliv, acks, ran, raised, pubs, wrote,
                   npub, cleaned>>

\* --- clean stage runner
\* the broker delivers the next message and on_message runs up to the dispatch
\* (lines 261-278): parse, and ack and return on a type it ignores
CDeliver ==
    /\ proc["C"].phase = "consuming"
    /\ cl.pc = "idle"
    /\ cq # <<>>
    /\ Len(deliv["C"]) < MaxDeliv
    /\ deliv' = [deliv EXCEPT !["C"] = Append(@, Head(cq))]
    /\ cq' = Tail(cq)
    /\ LET m == Head(cq)
           tag == Len(deliv["C"]) + 1
       IN  IF m.json # "object"
           THEN /\ cl' = [CIdle EXCEPT !.pc = "except", !.stage = "parse", !.before = table]
                /\ raised' = [raised EXCEPT !["C"] = @ \cup {tag}]
                /\ gauge' = [gauge EXCEPT !["C"] = @ + 1]
                /\ UNCHANGED acks
           ELSE IF m.type \notin clean_types
           THEN /\ acks' = basic_ack(acks, "C", tag)
                /\ gauge' = [gauge EXCEPT !["C"] = @ + 1 - 2]
                /\ cl' = CIdle
                /\ UNCHANGED raised
           ELSE /\ cl' = [CIdle EXCEPT !.pc = "clean", !.stage = "clean", !.before = table]
                /\ gauge' = [gauge EXCEPT !["C"] = @ + 1]
                /\ UNCHANGED <<acks, raised>>
    /\ UNCHANGED proc
    /\ UNCHANGED <<loadVars, tq, raw, objs, tr, nacks, ran, pubs, wrote, npub, cleaned>>

\* process_clean_job lines 160-179: corr_id check and clean_data
CClean ==
    /\ cl.pc = "clean"
    /\ \E fault \in {"none", "s3"}, pm \in PandasModes :
          LET m == Msg("C")
              res == process_clean_job_clean(m, objs, fault, pm)
          IN  /\ table' = table_after_clean(table, res)
              /\ IF res.ok
                 THEN /\ cl' = [cl EXCEPT !.pc = "write", !.stage = "write",
                                          !.df = res.df, !.src = res.src,
                                          !.key = res.key, !.columns = res.columns,
                                          !.redo = /\ cleaned[m.corr_id].acked
                                                   /\ cleaned[m.corr_id].obj = res.src]
                      /\ UNCHANGED raised
                 ELSE /\ cl' = [cl EXCEPT !.pc = "except", !.fault = fault, !.src = res.src,
                                          !.key = res.key]
                      /\ raised' = [raised EXCEPT !["C"] = @ \cup {Tag("C")}]
    /\ ran' = [ran EXCEPT !["C"] = @ \cup {Tag("C")}]
    /\ UNCHANGED proc
    /\ UNCHANGED <<clock, last, nloads, opened, closed, pkey, tq, cq, raw, objs, tr,
                   deliv, acks, nacks, pubs, wrote, gauge, npub, cleaned>>

\* process_clean_job lines 181-188: write_to_gold
CWrite ==
    /\ cl.pc = "write"
    /\ \E policy \in PkPolicies, fault \in Faults :
          /\ Load(cl.df, Msg("C").corr_id, policy, fault)
          /\ cl' = [cl EXCEPT !.pc = IF last'.ok THEN "ack" ELSE "except",
                              !.fault = fault]
          /\ raised' = IF last'.ok THEN raised
                       ELSE [raised EXCEPT !["C"] = @ \cup {Tag("C")}]
    /\ UNCHANGED proc
    /\ UNCHANGED <<tq, cq, raw, objs, tr, deliv, acks, nacks, ran, pubs, wrote, gauge,
                   npub, cleaned>>

\* on_message lines 283-293 and the finally block
CAck ==
    /\ cl.pc = "ack"
    /\ acks' = basic_ack(acks, "C", Tag("C"))
    /\ gauge' = [gauge EXCEPT !["C"] = @ - 1]
    /\ cleaned' = [cleaned EXCEPT ![Msg("C").corr_id] = [acked |-> TRUE, obj |-> cl.src]]
    /\ cl' = CIdle
    /\ UNCHANGED proc
    /\ UNCHANGED <<loadVars, tq, cq, raw, objs, tr, deliv, nacks, ran, raised, pubs,
                   wrote, npub>>

\* on_message lines 295-305 and the finally block
CExcept ==
    /\ cl.pc = "except"
    /\ nacks' = basic_nack(nacks, "C", Tag("C"), on_error_requeue)
    /\ cq' = IF on_error_requeue THEN <<Msg("C")>> \o cq ELSE cq
    /\ gauge' = [gauge EXCEPT !["C"] = @ - 1]
    /\ cl' = CIdle
    /\ UNCHANGED proc
    /\ UNCHANGED <<loadVars, tq, raw, objs, tr, deliv, acks, ran, raised, pubs, wrote,
                   npub, cleaned>>

\* --- a KeyboardInterrupt delivered to the process of runner r while it is
\* inside start_consuming: an interrupted handler runs its finally block only
\* (no ack, no nack), then stop_consuming and conn.close(); the broker puts
\* the unacknowledged message back on the queue
KeyboardInterrupt(r) ==
    /\ proc[r].phase = "consuming"
    /\ LET busy == (IF r = "T" THEN tr.pc ELSE cl.pc) # "idle" IN
       /\ proc' = [proc EXCEPT ![r].phase = "stopped", ![r].conn = "closed",
                                ![r].interrupted = IF busy THEN Tag(r) ELSE 0]
       /\ gauge' = IF busy THEN [gauge EXCEPT ![r] = @ - 1] ELSE gauge
       /\ tq' = IF busy /\ r = "T" THEN <<Msg("T")>> \o tq ELSE tq
       /\ cq' = IF busy /\ r = "C" THEN <<Msg("C")>> \o cq ELSE cq
    /\ tr' = IF r = "T" THEN TIdle ELSE tr
    /\ cl' = IF r = "C" THEN CIdle ELSE cl
    /\ UNCHANGED <<loadVars, raw, objs, deliv, acks, nacks, ran, raised, pubs, wrote,
                   npub, cleaned>>

InitPipe == \E sc \in Scenarios : InitPipeWith(sc.raw, sc.merged)

\* both runners are up
InitProc == proc = [r \in Runners |-> Consuming]

Init == InitLoad /\ InitPipe /\ InitProc

Next ==
    \/ PublishTransformJob
    \/ PublishCleanJob
    \/ TDeliver
    \/ TRun
    \/ TPublish
    \/ TAck
    \/ TExcept
    \/ CDeliver
    \/ CClean
    \/ CWrite
    \/ CAck
    \/ CExcept

Spec == Init /\ [][Next]_vars

\* a direct call of write_to_gold(df, corr_id, db_path)
WriteToGoldCall ==
    /\ \E df \in Batches, corr \in CorrIds, policy \in PkPolicies, fault \in Faults :
          Load(df, corr, policy, fault)
    /\ UNCHANGED pipeVars

NextLoad == WriteToGoldCall

InitGold == InitLoad /\ InitPipeWith(RawR2, Absent) /\ InitProc

\* the process of one runner from its start to start_consuming or to its
\* exit, while the other runner is up
InitStart ==
    /\ InitLoad
    /\ InitPipeWith(RawR2, Absent)
    /\ \E s \in Runners : proc = [r \in Runners |-> IF r = s THEN Starting ELSE Consuming]

NextStart ==
    \/ \E r \in Runners : PollPort(r)
    \/ \E r \in Runners : Connect(r)
    \/ \E r \in Runners : Setup(r)

\* the loops of start_consumer are sequential code: a process that can take
\* a step takes one
SpecStart == InitStart /\ [][NextStart]_vars /\ WF_vars(NextStart)

\* the raw tables explored for the merge engine
ParentRows ==
    {Row(1, "ok", "in"), Row(1, "null", "in"), Row(2, "ok", "in"), Row(NULL, "ok", "in")}
ChildRows ==
    {Child(1, "a"), Child(1, "b"), Child(1, NoText), Child(2, "a"), Child(2, NoText),
     Child(NULL, "a")}
ParentTables == UNION {[1..n -> ParentRows] : n \in 0..MaxParents}
ChildTables == UNION {[1..n -> ChildRows] : n \in 0..MaxChildren}
TableInputs ==
    {Pages(OnePage(c), OnePage(v), OnePage(p)) :
        c \in ParentTables, v \in ChildTables, p \in {<<>>, <<Child(2, "b")>>}}
\* two parent pages, the first one of any kind, and one child page
PageInputs ==
    {Pages(<<Page(k, <<Row(1, "ok", "in")>>), Page("array", <<Row(2, "ok", "in")>>)>>,
           <<Page(kv, <<Child(1, "a")>>)>>, <<>>) :
        k \in PageKinds, kv \in {"array", "fetch_error", "bad_json"}}
MergeInputs == TableInputs \cup PageInputs

\* the merge stage runner with one transform job for run R1 waiting
InitMerge ==
    /\ InitLoad
    /\ InitProc
    /\ \E in \in MergeInputs :
          InitPipeQueues(in, Absent,
                         <<Job("transform", "R1", NoBucket, NoBucket, NoPrefix)>>, <<>>)

NextMerge ==
    \/ TDeliver
    \/ TRun
    \/ TPublish
    \/ TAck
    \/ TExcept

SpecMerge == InitMerge /\ [][NextMerge]_vars

\* ------------------------------------------------------------------
\* the merge stage over raw buckets whose keys differ in year partition,
\* run directory and file extension: one parent page per key, each with one
\* crash of its own
\* ------------------------------------------------------------------
OneCrash(kind, id) == Page(kind, <<Row(id, "ok", "in")>>)
KeyPages ==
    << RawObject(raw_key(PREFIX, "crashes", "2023", corr_dir("R1"), part(1, JSON_GZ)),
                 OneCrash("gzip", 1)),
       RawObject(raw_key(PREFIX, "crashes", "2024", corr_dir("R1"), part(1, JSON)),
                 OneCrash("array", 2)),
       RawObject(raw_key(PREFIX, "crashes", "2024", corr_dir("R1"), part(2, GZ)),
                 OneCrash("gzip", 3)),
       RawObject(raw_key(PREFIX, "crashes", "2024", corr_dir("R10"), part(1, JSON)),
                 OneCrash("array", 4)),
       RawObject(raw_key(PREFIX, "crashes", "2024", corr_dir("R2"), part(1, JSON)),
                 OneCrash("array", 5)),
       RawObject(raw_key(PREFIX, "crashes", "2024", <<"x">> \o corr_dir("R1"),
                         part(1, JSON)),
                 OneCrash("array", 6)) >>
\* the objects of KeyPages with an index in S, in listing order
Listing(S) ==
    [i \in 1..Cardinality(S) |->
        KeyPages[CHOOSE k \in S : Cardinality({j \in S : j < k}) = i - 1]]
KeyBuckets == {Listing(S) : S \in SUBSET DOMAIN KeyPages}

\* the merge stage runner with one transform job for run R1 waiting
InitKeys ==
    /\ InitLoad
    /\ InitProc
    /\ \E bucket \in KeyBuckets :
          InitPipeBucket(bucket, Absent,
                         <<Job("transform", "R1", NoBucket, NoBucket, NoPrefix)>>, <<>>)

SpecKeys == InitKeys /\ [][NextMerge]_vars

\* ------------------------------------------------------------------
\* the cleaner alone: one clean job for run R2, whose merged object is any
\* frame of at most MaxFrame rows
\* ------------------------------------------------------------------
LatValues == {NaN, 0, 4158, 4160, 4210}
LngValues == {NaN, 0, 0 - 8770, 0 - 8900}
GeoRows ==
    {Crash(1, "ok", lat, lng, NoFlags, 30, CLEAR) : lat \in LatValues, lng \in LngValues}
NullRows ==
    {Crash(id, date, 4180, 0 - 8770, NoFlags, speed, weather) :
        id \in {1, NULL}, date \in {"ok", "null", "bad"}, speed \in {NaN, 80},
        weather \in {<<"r", "a", "i", "n">>, NoCell}}
PlainRows == {Row(1, "ok", "in"), Row(2, "null", "in"), Row(2, "ok", "out")}

\* flag cells: the ones standardize_boolean is to read as set, and the others
SetValues ==
    { StrVal(<<"Y">>), StrVal(<<" ", "Y", "e", "s", " ">>),
      StrVal(<<"T", "R", "U", "E">>), StrVal(<<"t", "\n">>),
      StrVal(<<"1", ".", "0">>), IntVal(1), FloatVal(10), BoolVal(TRUE) }
UnsetValues ==
    { StrVal(<<"N">>), StrVal(<<>>), StrVal(<<"y", " ", "e", "s">>),
      StrVal(<<"1", "0">>), IntVal(0), IntVal(10), FloatVal(11), BoolVal(FALSE),
      NoValue }
FlagValues == SetValues \cup UnsetValues
FlagRow(id, v, w) ==
    Crash(id, "ok", 4180, 0 - 8770,
          [c \in bool_cols |-> IF c = "hit_and_run_i" THEN v ELSE w], 30, CLEAR)

\* weather cells that name a snow condition in some letter case, and others
SnowInputs ==
    {
      <<"s", "n", "o", "w">>, <<"S", "n", "o", "w">>,
      <<"B", "L", "O", "W", "I", "N", "G", " ", "S", "N", "O", "W">>,
      <<"B", "l", "o", "w", "i", "n", "g", " ", "S", "n", "o", "w">>,
      <<"s", "l", "e", "e", "t", "/", "h", "a", "i", "l">>,
      <<"F", "r", "e", "e", "z", "i", "n", "g", " ", "R", "a", "i", "n", "/", "D", "r", "i", "z", "z", "l", "e">> }
WeatherValues ==
    SnowInputs \cup {NoCell} \cup
    {
      <<"C", "L", "E", "A", "R">>, <<"c", "l", "e", "a", "r">>, <<"R", "a", "i", "n">>,
      <<"C", "l", "o", "u", "d", "y", "/", "O", "v", "e", "r", "c", "a", "s", "t">>,
      <<"F", "O", "G", "/", "S", "M", "O", "K", "E", "/", "H", "A", "Z", "E">>,
      <<" ", "S", "N", "O", "W">>, <<"s", "n", "o", "w", "y">> }
LightValues ==
    {NoCell} \cup
    {
      <<"d", "a", "y", "l", "i", "g", "h", "t">>, <<"D", "u", "s", "k">>,
      <<"D", "A", "R", "K", "N", "E", "S", "S", ",", " ", "L", "I", "G", "H", "T", "E", "D", " ", "R", "O", "A", "D">>,
      <<"d", "a", "r", "k", "n", "e", "s", "s", ",", " ", "l", "i", "g", "h", "t", "e", "d", " ", "r", "o", "a", "d">>,
      <<"n", "e", "o", "n">>, <<"D", "A", "W", "N", " ">> }
TextRow(id, w, l) ==
    [Crash(id, "ok", 4180, 0 - 8770, NoFlags, 30, w) EXCEPT !.light = l]
TextFrames ==
    {<<TextRow(1, w, l)>> \o [i \in 1..n |-> TextRow(1 + i, w2, l2)] :
        w \in WeatherValues, l \in LightValues, n \in 0..(MaxFrame - 1),
        w2 \in {NoCell, SNOW}, l2 \in {NoCell, DAYLIGHT}}

\* rows around the two ceilings and around the limits of the hour buckets
UnitValues == {NaN, 2, 10, 11, 40}
SpeedValues == {NaN, 30, 75, 76, 80}
HourValues == {NaN, 0 - 1, 0, 6, 7, 12, 13, 18, 19, 23, 24}
NumberRow(id, u, v, h) ==
    [Crash(id, "ok", 4180, 0 - 8770, NoFlags, v, CLEAR) EXCEPT !.units = u, !.hour = h]
NumberFrames ==
    {<<NumberRow(1, u, v, 12)>> \o [i \in 1..n |-> NumberRow(1 + i, u2, v2, 12)] :
        u \in UnitValues, v \in SpeedValues, n \in 0..(MaxFrame - 1),
        u2 \in {NaN, 11}, v2 \in {NaN, 76}}
    \cup {<<NumberRow(1, 2, 30, h)>> \o [i \in 1..n |-> NumberRow(1 + i, 2, 30, h2)] :
             h \in HourValues, n \in 0..(MaxFrame - 1), h2 \in {NaN, 12}}

Frames(S) == UNION {[1..n -> S] : n \in 1..MaxFrame}
CleanFrames ==
    {Object(f) : f \in Frames(GeoRows) \cup Frames(NullRows) \cup TextFrames
                   \cup NumberFrames}
    \cup {ObjectWithout(f, cols) : f \in Frames(PlainRows),
                                   cols \in {{}} \cup {{c} : c \in req_cols}}
    \cup {Object(<<FlagRow(1, v, w)>> \o
                 [i \in 1..n |-> FlagRow(1 + i, w, v)]) :
             v \in FlagValues, w \in FlagValues, n \in 0..(MaxFrame - 1)}
    \cup {ObjectWithout(<<FlagRow(1, v, v)>>, cols) :
             v \in FlagValues, cols \in SUBSET bool_cols}

InitClean ==
    /\ InitLoad
    /\ InitProc
    /\ \E m \in CleanFrames :
          InitPipeQueues(RawR2, m, <<>>,
                         <<Job("clean", "R2", "transform-data", NoBucket, PREFIX)>>)

NextClean ==
    \/ CDeliver
    \/ CClean
    \/ CWrite
    \/ CAck
    \/ CExcept

SpecClean == InitClean /\ [][NextClean]_vars

\* the cleaner on a store file that was not made by ensure_schema_exists:
\* its gold.crashes has a UNIQUE constraint on crash_record_id and may hold
\* rows without a key
LegacyRow(id) == [id |-> id, corr_id |-> "R1", inserted_at |-> 0, updated_at |-> 0]
LegacyTables ==
    { <<>>, <<LegacyRow(1)>>, <<LegacyRow(NULL)>>, <<LegacyRow(1), LegacyRow(NULL)>>,
      <<LegacyRow(NULL), LegacyRow(NULL)>> }
LegacyFrames == Frames({Row(1, "ok", "in"), Row(2, "ok", "in"), Row(NULL, "ok", "in")})

InitLegacy ==
    /\ \E t \in LegacyTables : InitStore(t, "unique")
    /\ InitProc
    /\ \E f \in LegacyFrames :
          InitPipeQueues(RawR2, Object(f), <<>>,
                         <<Job("clean", "R2", "transform-data", NoBucket, PREFIX)>>)

SpecLegacy == InitLegacy /\ [][NextClean]_vars

\* the two runners with a shutdown signal possible at any point
InitShutdown ==
    /\ InitLoad
    /\ InitPipeWith(RawTwo, Object(<<Row(1, "ok", "in"), Row(2, "null", "in")>>))
    /\ InitProc

NextShutdown ==
    \/ Next
    \/ \E r \in Runners : KeyboardInterrupt(r)

SpecShutdown == InitShutdown /\ [][NextShutdown]_vars

SpecLoad == InitGold /\ [][NextLoad]_vars

\* ------------------------------------------------------------------
\* Properties of the load & integrity engine
\* ------------------------------------------------------------------
IdsOf(df) == {df[i].id : i \in DOMAIN df}

\* C1: after any sequence of loads the gold.crashes table holds no row with a
\* null crash_record_id and no two rows with the same crash_record_id.
C1_NoNullOrDuplicateKey ==
    \A i, j \in DOMAIN table :
        /\ table[i].id # NULL
        /\ (i # j => table[i].id # table[j].id)

\* C1 witness: a successful load into a non-empty table that both inserted a
\* new key and met a key already stored
C1_Witness ==
    /\ last.ok
    /\ last.stats.before_count > 0
    /\ last.stats.inserted > 0
    /\ last.stats.skipped > 0

\* C2: when a successful load into an empty table is followed by a successful
\* load of the same row set, the second load reports the same after_count,
\* inserted = 0 and all of its rows as skipped.
C2_ReloadIsIdempotent ==
    [][(/\ last.ok
        /\ last.stats.before_count = 0
        /\ nloads' = nloads + 1
        /\ last'.ok
        /\ last'.df = last.df)
       => (/\ last'.stats.after_count = last.stats.after_count
           /\ last'.stats.inserted = 0
           /\ last'.stats.skipped = Len(last'.df))]_loadVars

\* C2 witness: the second of two loads succeeded on a non-empty row set whose
\* keys are exactly the keys the first load stored, and it inserted nothing
C2_Witness ==
    /\ nloads = 2
    /\ last.ok
    /\ Len(last.df) > 0
    /\ last.stats.before_count > 0
    /\ \A i \in DOMAIN table : table[i].inserted_at = 1
    /\ IdsOf(last.df) = KeysOf(table)
    /\ last.stats.inserted = 0

\* C3: no load updates or deletes a stored row: every row stays at its place
\* with every column unchanged (corr_id, inserted_at and updated_at included),
\* and every row a load adds carries a key that was not stored before.
C3_FirstWriterWins ==
    [][/\ \A i \in DOMAIN table : i \in DOMAIN table' /\ table'[i] = table[i]
       /\ \A j \in DOMAIN table' :
              j \notin DOMAIN table => table'[j].id \notin KeysOf(table)]_loadVars

\* C3 witness: a successful load of another run met a stored key, and the
\* stored row still carries the stamps and corr_id of the earlier load
C3_Witness ==
    /\ last.ok
    /\ \E i \in DOMAIN table :
           /\ table[i].id \in IdsOf(last.df)
           /\ table[i].inserted_at < clock - 1
           /\ \E j \in DOMAIN table :
                  table[j].inserted_at = clock - 1 /\ table[j].corr_id # table[i].corr_id

\* ------------------------------------------------------------------
\* Properties of the two runners
\* ------------------------------------------------------------------
Pc(r) == IF r = "T" THEN tr.pc ELSE cl.pc
Delivered(r) == 1..Len(deliv[r])
\* the handler of delivery tag of runner r has returned
Done(r, tag) == tag < Len(deliv[r]) \/ (tag = Len(deliv[r]) /\ Pc(r) = "idle")
\* a well-formed message of a type the stage does not handle
Unhandled(r, m) ==
    /\ m.json = "object"
    /\ r = "T" => m.type \notin {"transform", "clean"}
    /\ r = "C" => m.type # "clean"

\* C4: every delivery gets exactly one ack or exactly one nack once its
\* handler has returned, and never more than one of them at any time.
C4_ExactlyOneAckOrNack ==
    \A r \in Runners : \A tag \in Tags :
        /\ acks[r][tag] + Len(nacks[r][tag]) <= 1
        /\ (tag \in Delivered(r) /\ Done(r, tag))
               => acks[r][tag] + Len(nacks[r][tag]) = 1
        /\ tag \notin Delivered(r) => acks[r][tag] + Len(nacks[r][tag]) = 0

\* C4 witness: one runner has finished a delivery whose engine succeeded
\* (acked) and a delivery whose handling raised (nacked)
C4_Witness ==
    \E r \in Runners : \E t1, t2 \in Delivered(r) :
        /\ Done(r, t1) /\ Done(r, t2)
        /\ t1 \in ran[r] /\ t1 \notin raised[r] /\ acks[r][t1] = 1
        /\ t2 \in raised[r] /\ Len(nacks[r][t2]) = 1

\* C5: a delivery whose handling raised is never acked, is nacked with
\* requeue = false once its handler has returned, and the nack puts nothing
\* back on the runner's queue.
C5_FailureNackedWithoutRequeue ==
    /\ [](\A r \in Runners : \A tag \in raised[r] :
             /\ acks[r][tag] = 0
             /\ \A i \in DOMAIN nacks[r][tag] : nacks[r][tag][i] = FALSE
             /\ Done(r, tag) => nacks[r][tag] = <<FALSE>>)
    /\ [][/\ (tr.pc = "except" /\ tr'.pc = "idle") => tq' = tq
          /\ (cl.pc = "except" /\ cl'.pc = "idle") => cq' = cq]_vars

\* C5 witness: the merge stage has nacked an unparsable body and the clean
\* stage has nacked a job whose engine raised
C5_Witness ==
    /\ \E tag \in raised["T"] :
          /\ Done("T", tag) /\ deliv["T"][tag].json = "invalid"
          /\ nacks["T"][tag] = <<FALSE>>
    /\ \E tag \in raised["C"] :
          /\ Done("C", tag) /\ tag \in ran["C"]
          /\ nacks["C"][tag] = <<FALSE>>

\* C6: a well-formed message of a type the stage does not handle is acked
\* once and not nacked, no engine runs for it, nothing is written or
\* published for it, and its handling leaves the gold table, the merged
\* objects and the clean queue's producers' view unchanged.
C6_IgnoredTypeAckedWithoutEffect ==
    /\ [](\A r \in Runners : \A tag \in Delivered(r) :
             Unhandled(r, deliv[r][tag])
                 => /\ acks[r][tag] = 1
                    /\ nacks[r][tag] = <<>>
                    /\ tag \notin ran[r]
                    /\ tag \notin raised[r]
                    /\ r = "T" => (pubs[tag] = <<>> /\ wrote[tag] = {}))
    /\ [][\A r \in Runners :
             (/\ Len(deliv'[r]) = Len(deliv[r]) + 1
              /\ Unhandled(r, deliv'[r][Len(deliv'[r])]))
                 => /\ table' = table
                    /\ nloads' = nloads
                    /\ objs' = objs
                    /\ r = "T" => cq' = cq]_vars

\* C6 witness: each stage has acked a message it ignores, the merge stage one
\* without a type and the clean stage one of type "unknown"
C6_Witness ==
    /\ \E tag \in Delivered("T") :
          /\ deliv["T"][tag].json = "object" /\ deliv["T"][tag].type = NoType
          /\ acks["T"][tag] = 1
    /\ \E tag \in Delivered("C") :
          /\ deliv["C"][tag].type = "unknown"
          /\ acks["C"][tag] = 1

\* C7 as claimed: the merge stage runs its engine only for type "transform"
\* and the clean stage only for type "clean".
C7_OnlyOwnType ==
    /\ \A tag \in ran["T"] : deliv["T"][tag].type = "transform"
    /\ \A tag \in ran["C"] : deliv["C"][tag].type = "clean"

\* the types a stage dispatches to its engine
Dispatched(r) == IF r = "T" THEN {"transform", "clean"} ELSE {"clean"}

\* C7 amended: the merge stage runs its engine exactly for the well-formed
\* messages of type "transform" or "clean", the clean stage exactly for those
\* of type "clean"; a message of any other type is acked and dropped without
\* running the engine or publishing a job.
C7_RunsExactlyDispatchedTypes ==
    \A r \in Runners : \A tag \in Delivered(r) :
        LET m == deliv[r][tag] IN
        /\ tag \in ran[r] => (m.json = "object" /\ m.type \in Dispatched(r))
        /\ (Done(r, tag) /\ m.json = "object" /\ m.type \in Dispatched(r))
               => tag \in ran[r]
        /\ (m.json = "object" /\ m.type \notin Dispatched(r))
               => (acks[r][tag] = 1 /\ (r = "T" => pubs[tag] = <<>>))

\* C7 witness: the merge stage ran its engine for a message of type "clean"
\* and published a clean job for it
C7_Witness ==
    \E tag \in ran["T"] :
        /\ deliv["T"][tag].type = "clean"
        /\ pubs[tag] # <<>>
        /\ acks["T"][tag] = 1

\* C8: per merge stage delivery at most one clean job is published; a
\* published job has type "clean", the corr_id of the consumed message and
\* the bucket and prefix of the object written for that delivery, and goes
\* out with delivery_mode 2 to the durable clean queue; an ignored or failed
\* delivery publishes nothing.
C8_AtMostOneCleanJob ==
    \A tag \in Tags :
        /\ Len(pubs[tag]) <= 1
        /\ pubs[tag] # <<>> =>
              LET p == pubs[tag][1]
                  m == deliv["T"][tag]
              IN  /\ tag \in ran["T"]
                  /\ p.body.json = "object"
                  /\ p.body.type = "clean"
                  /\ p.body.corr_id = m.corr_id
                  /\ wrote[tag] = {<<p.body.xform_bucket,
                                     out_key(p.body.prefix, p.body.corr_id)>>}
                  /\ p.delivery_mode = 2
                  /\ p.durable
                  /\ p.queue = CLEAN_QUEUE
        /\ (tag \in raised["T"]
            \/ (tag \in Delivered("T") /\ Unhandled("T", deliv["T"][tag])))
               => pubs[tag] = <<>>

\* C8 witness: a transform job naming the bucket "alt" was acked after one
\* clean job was published for it
C8_Witness ==
    \E tag \in Delivered("T") :
        /\ Len(pubs[tag]) = 1
        /\ pubs[tag][1].body.xform_bucket = "alt"
        /\ acks["T"][tag] = 1

\* C9: when a clean job whose corr_id was acked before is processed again on
\* the same merged object, the load leaves the row count and the key set of
\* the table as they were, the job does not fail unless the store faults, and
\* it is acked.
C9_RedeliveryIsSafe ==
    /\ []((cl.redo /\ cl.fault = "none") => cl.pc # "except")
    /\ [][(cl.pc = "write" /\ cl.redo /\ nloads' = nloads + 1)
             => (Len(table') = Len(table) /\ KeysOf(table') = KeysOf(table))]_vars
    /\ [][(cl.pc = "ack" /\ cl.redo /\ cl'.pc = "idle")
             => (acks'["C"][Tag("C")] = 1 /\ nacks'["C"][Tag("C")] = <<>>)]_vars

\* C9 witness: the second processing of an acked job has loaded its rows into
\* the non-empty table and is about to be acked
C9_Witness ==
    /\ cl.pc = "ack"
    /\ cl.redo
    /\ Len(cl.df) > 0
    /\ last.stats.inserted = 0
    /\ Len(table) > 0

\* C10: from the delivery of a clean job until its load step the gold table
\* is the table found at delivery, and a job that raised before the load step
\* leaves it so.
C10_NoRowsBeforeLoad ==
    /\ cl.pc \in {"clean", "write"} => table = cl.before
    /\ (cl.pc = "except" /\ cl.stage \in {"parse", "clean"}) => table = cl.before

\* C10 witness: a cleaning rule raised on a merged object that had been read
C10_Witness ==
    /\ cl.pc = "except"
    /\ cl.stage = "clean"
    /\ cl.src # <<>>

\* ------------------------------------------------------------------
\* Properties of runner startup and shutdown
\* ------------------------------------------------------------------
\* C11: a runner makes at most 60 TCP polls and, only after the port was
\* reachable, at most 60 connection attempts; it does not stay in a loop whose
\* bound is used up; it declares its queue and consumes only with an open
\* connection; and every start ends in consuming or in the exit of the process.
C11_StartupTerminatesWithinBounds ==
    /\ [](\A r \in Runners :
             /\ proc[r].polls <= 60
             /\ proc[r].attempts <= 60
             /\ proc[r].attempts > 0 => proc[r].polls >= 1
             /\ proc[r].polls = 60 => proc[r].phase # "wait_for_port"
             /\ proc[r].attempts = 60 => proc[r].phase # "connect"
             /\ proc[r].declared => proc[r].conn = "open"
             /\ proc[r].phase = "consuming" => (proc[r].conn = "open" /\ proc[r].declared)
             /\ proc[r].phase = "setup" => proc[r].conn = "open")
    /\ <>[](\A r \in Runners : proc[r].phase \in {"consuming", "exit"})

\* C11 witness: the merge stage process consumes after the port answered its
\* 60th poll and the broker accepted its 60th connection attempt
C11_Witness ==
    /\ proc["T"].phase = "consuming"
    /\ proc["T"].polls = 60
    /\ proc["T"].attempts = 60

\* C12 as claimed: when a runner has stopped after a shutdown signal, every
\* message delivered to it has received its ack or its nack.
C12_InFlightJobFinishesBeforeShutdown ==
    \A r \in Runners :
        proc[r].phase = "stopped" =>
            \A tag \in Delivered(r) : acks[r][tag] + Len(nacks[r][tag]) = 1

\* ------------------------------------------------------------------
\* Properties of the merge engine
\* ------------------------------------------------------------------
\* the object written for a merge stage delivery, and the tables it was made of
MergedOf(tag) == objs[CHOOSE o \in wrote[tag] : TRUE].rows
PagesOf(tag, alias) == keys_for_corr(raw, PREFIX, alias, deliv["T"][tag].corr_id)
ParentsOf(tag) == load_dataset(PagesOf(tag, "crashes")).rows
VehiclesOf(tag) == load_dataset(PagesOf(tag, "vehicles")).rows
PeopleOf(tag) == load_dataset(PagesOf(tag, "people")).rows
\* the index of the first row of table t with key k
FirstWith(t, k) == CHOOSE i \in DOMAIN t : t[i].id = k /\ \A j \in 1..(i - 1) : t[j].id # k
\* the rows of child table t with key k
Sharing(t, k) == SelectSeq(t, LAMBDA r : r.id = k)

\* C13: the merged object has no two rows with the same parent key, it has
\* exactly the keys of the parent table (a key without child rows included,
\* a key found only in child rows excluded), and each row carries the fields
\* of the first parent row with its key.
C13_OneRowPerParentKey ==
    \A tag \in Tags :
        wrote[tag] # {} =>
            LET out == MergedOf(tag)
                par == ParentsOf(tag)
            IN  /\ \A i, j \in DOMAIN out : i # j => out[i].id # out[j].id
                /\ {out[i].id : i \in DOMAIN out} = {par[i].id : i \in DOMAIN par}
                /\ \A i \in DOMAIN out :
                       LET first == par[FirstWith(par, out[i].id)] IN
                       [f \in DOMAIN first |-> out[i][f]] = first

\* C13 witness: a merged object of two rows, made from parent rows among
\* which a key occurs twice with different fields, one key has no child row
\* and a child row has a key no parent has
C13_Witness ==
    \E tag \in Tags :
        /\ wrote[tag] # {}
        /\ acks["T"][tag] = 1
        /\ Len(MergedOf(tag)) = 1
        /\ ParentsOf(tag) = <<Row(1, "ok", "in"), Row(1, "null", "in")>>
        /\ VehiclesOf(tag) = <<Child(2, "a")>>
        /\ MergedOf(tag)[1].date = "ok"
        /\ MergedOf(tag)[1].veh = <<>>

\* the aggregate columns a merged row must carry for child table t: none
\* (nulls) without child rows, else the count and the lists
IsSortedSetOf(list, vals) ==
    /\ {list[i] : i \in DOMAIN list} = vals
    /\ \A i, j \in DOMAIN list :
           i < j => \E a, b \in DOMAIN Texts : a < b /\ Texts[a] = list[i] /\ Texts[b] = list[j]
ListsAreSortedSets(agg, kids) ==
    \A c \in DOMAIN agg.lists :
        IsSortedSetOf(agg.lists[c], {kids[i].x : i \in DOMAIN kids} \ {NoText})

\* C14 as claimed: for each (non-null) parent key the child count equals the
\* number of child rows sharing the key (a null count standing for 0), and
\* each list is the sorted set of the distinct non-null values of those rows.
C14_ChildCountAndLists ==
    \A tag \in Tags :
        wrote[tag] # {} =>
            \A i \in DOMAIN MergedOf(tag) :
                LET r == MergedOf(tag)[i]
                    kids == Sharing(VehiclesOf(tag), r.id)
                IN  r.id # NULL =>
                        IF r.veh = <<>> THEN kids = <<>>
                        ELSE /\ r.veh[1].count = Len(kids)
                             /\ ListsAreSortedSets(r.veh[1], kids)

\* C14 amended: for each non-null parent key with at least one child row the
\* child count equals the number of distinct child rows sharing the key
\* (exact duplicate rows count once) and each list is the sorted set of the
\* distinct non-null values of those rows; for a parent key without child
\* rows, and for a null parent key, the count and the lists are null.
C14_DistinctChildCountAndLists ==
    \A tag \in Tags :
        wrote[tag] # {} =>
            \A i \in DOMAIN MergedOf(tag) :
                LET r == MergedOf(tag)[i]
                    veh == Sharing(VehiclesOf(tag), r.id)
                    ppl == Sharing(PeopleOf(tag), r.id)
                    Holds(agg, kids) ==
                        IF kids = <<>> \/ r.id = NULL THEN agg = <<>>
                        ELSE /\ Len(agg) = 1
                             /\ agg[1].count = Cardinality({kids[k] : k \in DOMAIN kids})
                             /\ ListsAreSortedSets(agg[1], kids)
                IN  Holds(r.veh, veh) /\ Holds(r.ppl, ppl)

\* C14 witness: parent key 1 with the child rows x = "b" and x = "a" got the
\* count 2 and the list a, b
C14_Witness ==
    \E tag \in Tags :
        /\ wrote[tag] # {}
        /\ VehiclesOf(tag) = <<Child(1, "b"), Child(1, "a")>>
        /\ \E i \in DOMAIN MergedOf(tag) :
               /\ MergedOf(tag)[i].id = 1
               /\ MergedOf(tag)[i].veh = <<[count |-> 2, lists |-> <<(<<"a", "b">>)>>]>>

\* C15 as claimed: a transform job for a run without parent rows does not
\* fail in the merge (with or without child rows), and a clean job whose
\* merged object exists and is empty does not fail in the cleaning engine.
C15_NoParentDataIsNotAnError ==
    /\ (tr.pc = "except" /\ tr.err = "merge") => ParentsOf(Tag("T")) # <<>>
    /\ (cl.pc = "except" /\ cl.stage = "clean" /\ cl.fault = "none"
        /\ Msg("C").corr_id \in CorrIds)
           => LET obj == objs[<<SILVER_BUCKET, out_key(SILVER_PREFIX, Msg("C").corr_id)>>]
              IN  ~(obj.exists /\ obj.rows = <<>>)

\* the rows of the pages of a run's parent alias that hold a well-formed
\* array, in listing order
RECURSIVE WellFormedRows(_)
WellFormedRows(pages) ==
    IF pages = <<>> THEN <<>>
    ELSE (IF Head(pages).kind \in {"array", "gzip", "envelope"} THEN Head(pages).rows
          ELSE <<>>) \o WellFormedRows(Tail(pages))

\* C16 as claimed: a transform job never fails because a page could not be
\* read or decoded, and the merged object has exactly the parent keys of the
\* well-formed pages (a page with an error contributes no row).
C16_PageErrorIsTolerated ==
    /\ tr.pc = "except" => tr.err # "page"
    /\ \A tag \in Tags :
           wrote[tag] # {} =>
               LET good == WellFormedRows(PagesOf(tag, "crashes")) IN
               {MergedOf(tag)[i].id : i \in DOMAIN MergedOf(tag)}
                   = {good[i].id : i \in DOMAIN good}

\* C17: the merge stage writes its output to bucket B under the run's
\* identifier, and the cleaner that handles the clean job published for that
\* run asks the store for exactly the object the merge stage wrote
C17_CleanerReadsWhatMergeWrote ==
    \A tag \in Tags :
        /\ wrote[tag] # {} =>
              wrote[tag] = {<<out_bucket(deliv["T"][tag]),
                              out_key(PREFIX, deliv["T"][tag].corr_id)>>}
        /\ (/\ pubs[tag] # <<>>
            /\ cl.pc \in {"write", "ack", "except"}
            /\ cl.key # <<>>
            /\ Msg("C") = pubs[tag][1].body)
               => cl.key \in wrote[tag]

\* the merged object the clean job of run R2 is about, and the cleaned frame
\* once clean_data has returned it
Merged == objs[<<SILVER_BUCKET, out_key(SILVER_PREFIX, "R2")>>]
Returned == cl.pc \in {"write", "ack"} \/ (cl.pc = "except" /\ cl.stage = "write")

\* C18: after cleaning, every surviving row has a non-null crash_record_id, a
\* non-null crash_date and a non-null value in every target column, also when
\* a column of the batch is entirely null or a crash_record_id is null
C18_CleanedRowsFullyPopulated ==
    Returned =>
        \A i \in DOMAIN cl.df :
            /\ cl.df[i].id # NULL
            /\ cl.df[i].date # "null"
            /\ cl.df[i].lat # NaN
            /\ cl.df[i].lng # NaN
            /\ cl.df[i].speed # NaN
            /\ cl.df[i].weather # NoCell
            /\ \A c \in bool_cols : cl.df[i].flags[c] \in {0, 1}

\* C19: every cleaned row has its latitude in [41.6, 42.1] and its longitude
\* in [-88.0, -87.5], and is not at (0, 0), also when the input holds rows
\* without coordinates
C19_CoordinatesInsideEnvelope ==
    Returned =>
        \A i \in DOMAIN cl.df :
            /\ cl.df[i].lat # NaN
            /\ cl.df[i].lng # NaN
            /\ CHICAGO_LAT_MIN <= cl.df[i].lat /\ cl.df[i].lat <= CHICAGO_LAT_MAX
            /\ CHICAGO_LNG_MIN <= cl.df[i].lng /\ cl.df[i].lng <= CHICAGO_LNG_MAX
            /\ ~(cl.df[i].lat = 0 /\ cl.df[i].lng = 0)

\* C20: in every cleaned row each of the four flag columns holds 0 or 1; it
\* holds 1 exactly when the input cell, trimmed and lower-cased, is one of
\* y, yes, true, t, 1, 1.0; a null cell and an absent column give 0
C20_FlagsAreZeroOrOne ==
    Returned =>
        \A i \in DOMAIN cl.df :
            /\ \A c \in bool_cols : cl.df[i].flags[c] \in {0, 1}
            /\ \E k \in DOMAIN Merged.rows :
                  /\ "crash_record_id" \in Merged.missing \/ Merged.rows[k].id = cl.df[i].id
                  /\ \A c \in bool_cols :
                        cl.df[i].flags[c] = 1 <=>
                            (c \notin Merged.missing /\ Merged.rows[k].flags[c] \in SetValues)

\* a cleaned row whose text flag " Yes " became 1 while an absent flag column
\* became 0
C20_Witness ==
    /\ cl.pc = "ack"
    /\ Merged.missing = {"work_zone_i"}
    /\ Merged.rows = <<FlagRow(1, StrVal(<<" ", "Y", "e", "s", " ">>),
                               StrVal(<<" ", "Y", "e", "s", " ">>))>>
    /\ Len(cl.df) = 1
    /\ cl.df[1].flags["hit_and_run_i"] = 1
    /\ cl.df[1].flags["work_zone_i"] = 0

\* C21: in every cleaned row lighting_condition and weather_condition hold a
\* word of the column's vocabulary or OTHER; a weather cell that names SNOW,
\* BLOWING SNOW, SLEET/HAIL or FREEZING RAIN/DRIZZLE in any letter case
\* becomes SNOW, and a missing weather cell becomes OTHER
C21_CategoricalsInVocabulary ==
    Returned =>
        \A i \in DOMAIN cl.df :
            /\ cl.df[i].light \in valid_lighting \cup {Other}
            /\ cl.df[i].weather \in valid_weather \cup {Other}
            /\ \E k \in DOMAIN Merged.rows :
                  /\ "crash_record_id" \in Merged.missing \/ Merged.rows[k].id = cl.df[i].id
                  /\ ("weather_condition" \notin Merged.missing
                      /\ Merged.rows[k].weather \in SnowInputs) => cl.df[i].weather = SNOW
                  /\ ("weather_condition" \in Merged.missing
                      \/ Merged.rows[k].weather = NoCell) => cl.df[i].weather = Other

\* a frame whose first row says "Blowing Snow" and whose second row has no
\* weather and no lighting: cleaned to SNOW, and to OTHER twice
C21_Witness ==
    /\ cl.pc = "ack"
    /\ Len(cl.df) = 2
    /\ Merged.rows[1].weather = <<"B", "l", "o", "w", "i", "n", "g", " ", "S", "n", "o", "w">>
    /\ Merged.rows[2].weather = NoCell
    /\ Merged.rows[2].light = NoCell
    /\ cl.df[1].weather = SNOW
    /\ cl.df[2].weather = Other
    /\ cl.df[2].light = Other

\* the rows of the merged object that cleaned row o can come from
SourcesOf(o) ==
    {k \in DOMAIN Merged.rows :
        "crash_record_id" \in Merged.missing \/ Merged.rows[k].id = o.id}

\* C22: in every cleaned row a num_units value is at most 10 and a
\* posted_speed_limit value is at most 75; an input value above the ceiling
\* comes out as the ceiling, its row being kept, and an input value at or
\* under the ceiling comes out unchanged
C22_CappedAtCeilings ==
    Returned =>
        /\ \A i \in DOMAIN cl.df :
              LET o == cl.df[i] IN
              /\ o.units # NaN => o.units <= 10
              /\ o.speed # NaN => o.speed <= 75
              /\ \E k \in SourcesOf(o) :
                    LET r == Merged.rows[k] IN
                    /\ (r.units # NaN /\ r.units > 10) => o.units = 10
                    /\ (r.units # NaN /\ r.units <= 10) => o.units = r.units
                    /\ (r.speed # NaN /\ r.speed > 75) => o.speed = 75
                    /\ (r.speed # NaN /\ r.speed <= 75) => o.speed = r.speed
        /\ \A k \in DOMAIN Merged.rows :
              LET r == Merged.rows[k] IN
              (/\ r.date = "ok"
               /\ r.lat \in CHICAGO_LAT_MIN..CHICAGO_LAT_MAX
               /\ r.lng \in CHICAGO_LNG_MIN..CHICAGO_LNG_MAX
               /\ (r.units > 10 \/ r.speed > 75))
                  => \E i \in DOMAIN cl.df : k \in SourcesOf(cl.df[i])

\* two rows: 10 units at 75 mph, cleaned to the same, and 11 units at 76
\* mph, cleaned to 10 and 75
C22_Witness ==
    /\ cl.pc = "ack"
    /\ Len(cl.df) = 2
    /\ Merged.rows[1].units = 10 /\ Merged.rows[1].speed = 75
    /\ cl.df[1].units = 10 /\ cl.df[1].speed = 75
    /\ Merged.rows[2].units = 11 /\ Merged.rows[2].speed = 76
    /\ cl.df[2].units = 10 /\ cl.df[2].speed = 75

\* C24: a required column missing from the merged object never makes
\* clean_data raise: whenever cleaning a merged object raises, cleaning the
\* same rows under a complete header raises too; and the frame returned has
\* every required column
C24_ProjectionNeverFails ==
    /\ (cl.pc = "except" /\ cl.stage = "clean" /\ cl.fault = "none"
        /\ Merged.exists /\ Merged.rows # <<>>)
           => \A pm \in PandasModes : ~clean_frame(Merged.rows, {}, pm).ok
    /\ Returned => req_cols \subseteq cl.columns

\* C25: hour_bin names the bucket of crash_hour when crash_hour is within
\* 0..23 (0-6 night, 7-12 morning, 13-18 afternoon, 19-23 evening); a row
\* whose crash_hour is negative, above 23 or missing has a null hour_bin
C25_HourBinOnlyInRange ==
    Returned =>
        \A i \in DOMAIN cl.df :
            \E k \in SourcesOf(cl.df[i]) :
                LET h == Merged.rows[k].hour
                    bin == cl.df[i].hour_bin
                IN  /\ h \in 0..6 => bin = "night"
                    /\ h \in 7..12 => bin = "morning"
                    /\ h \in 13..18 => bin = "afternoon"
                    /\ h \in 19..23 => bin = "evening"
                    /\ h \notin 0..23 => bin = NoText

\* C26: the statistics of every load that returns satisfy inserted =
\* after_count - before_count, skipped = attempted rows - inserted, inserted
\* >= 0, skipped >= 0 and after_count >= before_count, the two counts being
\* the sizes of the table before and after; inserted is the number of
\* distinct keys of the batch that were not stored before the load
C26_LoadStatistics ==
    [][(nloads' = nloads + 1 /\ last'.ok)
       => LET st == last'.stats IN
          /\ st.before_count = Len(table)
          /\ st.after_count = Len(table')
          /\ st.inserted = st.after_count - st.before_count
          /\ st.skipped = Len(last'.df) - st.inserted
          /\ st.inserted >= 0
          /\ st.skipped >= 0
          /\ st.after_count >= st.before_count
          /\ st.inserted = Cardinality(IdsOf(last'.df) \ KeysOf(table))]_loadVars

\* a batch that repeats one new key, loaded into a table that holds another
\* key: one row inserted, one skipped
C26_Witness ==
    /\ last.ok
    /\ Len(last.df) = 2
    /\ last.df[1].id = last.df[2].id
    /\ last.stats.before_count = 1
    /\ last.stats.after_count = 2
    /\ last.stats.inserted = 1
    /\ last.stats.skipped = 1

\* C28: every write_to_gold call that opened a store connection closes it
\* exactly once, on return and when schema creation, the insert or the
\* integrity check raises, and in these three cases the call raises
C28_ConnectionClosedOnEveryPath ==
    [][(nloads' = nloads + 1)
       => /\ last'.fault = "connect" => (opened' = opened /\ closed' = closed)
          /\ last'.fault # "connect" => (opened' = opened + 1 /\ closed' = closed + 1)
          /\ opened' = closed'
          /\ last'.fault \in {"schema", "insert", "verify"} => ~last'.ok]_loadVars

\* a call whose integrity check raised after the insert: the rows are in the
\* table, the call raised, and its connection is closed
C28_Witness ==
    /\ last.fault = "verify"
    /\ last.integrity = "raised"
    /\ ~last.ok
    /\ table # <<>>
    /\ opened = nloads
    /\ closed = nloads

\* C23: when the integrity check after the write fails, write_to_gold still
\* returns its statistics, with integrity_passed = false; the rows it wrote
\* stay in the table; and the clean job is acked
C23_FailedIntegrityIsNotFatal ==
    /\ (cl.stage = "write" /\ cl.pc \in {"ack", "except"} /\ last.integrity = "failed")
          => /\ cl.pc = "ack"
             /\ last.ok
             /\ last.stats.integrity_passed = FALSE
             /\ last.stats.inserted >= 0
             /\ last.stats.before_count = Len(cl.before)
             /\ Len(table) = last.stats.before_count + last.stats.inserted
             /\ SubSeq(table, 1, Len(cl.before)) = cl.before
             /\ \A i \in DOMAIN cl.df : cl.df[i].id \in KeysOf(table)
    /\ (cl.pc = "idle" /\ Len(deliv["C"]) = 1 /\ last.integrity = "failed")
          => /\ acks["C"][1] = 1
             /\ nacks["C"][1] = <<>>

\* a clean job that added rows to a table failing the check, and was acked
C23_Witness ==
    /\ cl.pc = "idle"
    /\ Len(deliv["C"]) = 1
    /\ acks["C"][1] = 1
    /\ last.ok
    /\ last.integrity = "failed"
    /\ last.stats.inserted > 0
    /\ ~verify_integrity(table)

\* a merge stage delivery that was dispatched to run_transform_job
Dispatched29(tag) ==
    /\ tag \in Delivered("T")
    /\ deliv["T"][tag].json = "object"
    /\ deliv["T"][tag].type \in transform_types

\* C29: in the merge stage the merged object is written, then the clean job
\* is published, then the message is acked: every acked transform job has its
\* merged object stored and exactly one clean job published, and a clean job
\* is published only for a corr_id whose merged object was written
C29_WriteThenPublishThenAck ==
    /\ [](\A tag \in Tags :
            /\ (Dispatched29(tag) /\ acks["T"][tag] > 0)
                  => /\ wrote[tag] # {}
                     /\ \A id \in wrote[tag] : objs[id].exists
                     /\ Len(pubs[tag]) = 1
            /\ pubs[tag] # <<>>
                  => LET b == pubs[tag][1].body IN
                     /\ <<b.xform_bucket, out_key(b.prefix, b.corr_id)>> \in wrote[tag]
                     /\ objs[<<b.xform_bucket, out_key(b.prefix, b.corr_id)>>].exists)
    /\ [][\A tag \in Tags :
            /\ wrote'[tag] # wrote[tag] => (pubs[tag] = <<>> /\ acks["T"][tag] = 0)
            /\ pubs'[tag] # pubs[tag] => (wrote[tag] # {} /\ acks["T"][tag] = 0)
            /\ (acks'["T"][tag] # acks["T"][tag] /\ tag \in Delivered("T")
                /\ Dispatched29(tag))
                  => (wrote[tag] # {} /\ pubs[tag] # <<>>)]_vars

\* a transform job acked after its object was written and its clean job
\* published
C29_Witness ==
    /\ Dispatched29(1)
    /\ deliv["T"][1].type = "transform"
    /\ acks["T"][1] = 1
    /\ wrote[1] # {}
    /\ Len(pubs[1]) = 1
    /\ tr.pc = "idle"

\* C30: the jobs-in-progress gauge of each runner goes up once and down once
\* per delivered message on every handler path: it is never negative, and it
\* is 0 whenever the runner handles no message
C30_GaugeBalanced ==
    \A r \in Runners :
        /\ gauge[r] >= 0
        /\ Pc(r) = "idle" => gauge[r] = 0

\* the path segments of key k
Segments(k) ==
    {SubSeq(k, i, j) : <<i, j>> \in
        {p \in (DOMAIN k) \X (DOMAIN k) :
            /\ p[1] <= p[2]
            /\ p[1] = 1 \/ k[p[1] - 1] = "/"
            /\ p[2] = Len(k) \/ k[p[2] + 1] = "/"
            /\ \A n \in p[1]..p[2] : k[n] # "/"}}
\* the objects of the raw bucket under prefix/alias/ whose key has the path
\* segment corr=<corr>
PagesOfRun(alias, corr) ==
    {raw[n] : n \in
        {i \in DOMAIN raw :
            /\ startswith(raw[i].key, chars(PREFIX) \o <<"/">> \o chars(alias) \o <<"/">>)
            /\ corr_dir(corr) \in Segments(raw[i].key)}}

\* C27: the raw objects that contribute rows to a run's merge are, for each
\* alias, exactly the objects under prefix/alias/ whose key has the path
\* segment corr=<corr_id>, in every year partition: no page of another run
\* (one whose id starts with this id included) is read, and no page of the
\* run is left out because of its file extension
C27_ExactlyThePagesOfTheRun ==
    \A tag \in Tags :
        wrote[tag] # {} =>
            LET corr == deliv["T"][tag].corr_id IN
            /\ \A alias \in {"crashes", "vehicles", "people"} :
                  {PagesOf(tag, alias)[i] : i \in DOMAIN PagesOf(tag, alias)}
                      = PagesOfRun(alias, corr)
            /\ IdsOf(MergedOf(tag))
                  = UNION {IdsOf(o.rows) : o \in PagesOfRun("crashes", corr)}
====
